---------------------------- MODULE Spec2Model ----------------------------
(***************************************************************************)
(* Enemy-death correlation pipeline of tibiantis-bot.                      *)
(*                                                                         *)
(* Text is modelled as a sequence of one-character strings so that the    *)
(* string operations of the code (split, strip, lower, replace, "in") are  *)
(* computed the way Python computes them.                                  *)
(***************************************************************************)
EXTENDS Integers, Sequences, FiniteSets, TLC

VARIABLES
    \* one call of DeathCheckerTask._process_character_deaths, after its fetch
    pName,            \* character.name
    pDeaths,          \* deaths returned by get_character_deaths_async
    pEnemies,         \* enemy_names
    pNow,             \* datetime.datetime.now(tz=tz.tzlocal())
    pIdx,             \* position of the for loop over deaths
    pPc,              \* "filter" | "match" | "returned" | "raised"
    killed_entries,   \* the list the call returns
    \* the bot process
    botState,         \* "constructed" | "setup" | "ready"
    loopPc,           \* check_deaths_loop: "unstarted" | "before_loop" | "due" | "running" | "sleeping" | "stopped"
    passes,           \* passes of check_deaths_loop started
    intervals,        \* waits of TABLE_REFRESH_INTERVAL minutes that have elapsed
    \* the store
    storeChars,       \* rows of table characters, in id order
    storeEnemies,     \* rows of table enemy_characters
    nextCharId,       \* next value of characters.id
    nextEnemyId,      \* next value of enemy_characters.id
    \* one run of check_character_deaths_by_enemies
    runPc,            \* "idle" | "gather" | "aggregated" | "publish" | "returned"
    high_level_characters,
    enemy_names,
    tasks,            \* the coroutines handed to asyncio.gather, one per character
    killed_by_enemies,
    returned,         \* the value the run returns
    runExc,           \* the exception that left the run, or "none"
    taskErrors,       \* records "Error in task" written to the log (line 86)
    dbSession,        \* the session of get_db_session: "none" | "open" | "closed"
    dbRolledBack,     \* whether get_db_session has rolled that session back
    \* _send_enemy_kills_table and the channel
    pubPc,            \* "idle" | "start" | "delete" | "scan_failed" | "send" | "done", "roster_..." in send_enemy_table
    pubBatch,         \* its argument
    pending,          \* positions of the messages still to delete, newest first
    channel,          \* the messages of the channel, oldest first
    pubErrorLogged,   \* whether _send_enemy_kills_table has called logger.error
    pubCalls,         \* direct calls of _send_enemy_kills_table so far
    otherPosts,       \* posts by other users so far
    \* two independent calls of TibiantisScraper.get_character_data
    scrRemote,        \* what the remote source answers to each call
    scrResult,        \* what each call returned
    \* one call of TibiantisScraper._parse_death_data
    dlTable,          \* the second table of the page: its rows after the header row
    dlResult,         \* what the call returned
    \* the handlers that write to the store: API, bot commands, roster refresh
    proc,             \* per process: the handler it runs and where it is
    opsStarted,       \* handlers started so far
    rosterReport,     \* the character ids the enemy roster table in the channel shows
    readyEvents,      \* times on_ready has fired
    \* calls of refresh_character_death_and_update_table
    refreshCalls,     \* per asyncio task: its position, the Lock object it made, whether it sent the table
    locks             \* the Lock objects created so far: whether each is held

matchVars == <<pName, pDeaths, pEnemies, pNow, pIdx, pPc, killed_entries>>
botVars == <<botState, loopPc, passes, intervals>>
storeVars == <<storeChars, storeEnemies, nextCharId, nextEnemyId>>
runVars ==
    <<runPc, high_level_characters, enemy_names, tasks, killed_by_enemies, returned,
      runExc, taskErrors, dbSession, dbRolledBack>>
pubVars == <<pubPc, pubBatch, pending, channel, pubErrorLogged, pubCalls, otherPosts>>
scrapeVars == <<scrRemote, scrResult>>
parseVars == <<dlTable, dlResult>>
lockVars == <<refreshCalls, locks>>
opVars == <<proc, opsStarted, rosterReport, readyEvents>>

vars == <<matchVars, botVars, storeVars, runVars, pubVars, scrapeVars, parseVars, lockVars, opVars>>

----------------------------------------------------------------------------
(* Bounds *)

MaxDeaths == 2        \* rows of one death log
MaxPasses == 2        \* passes of the scheduler loop
MaxOtherPosts == 1    \* times other users post to the channel
MaxPublishes == 3     \* direct calls of _send_enemy_kills_table
MaxRows == 2          \* labeled rows of one character page

----------------------------------------------------------------------------
(* Python str operations on sequences of characters *)

UpperLetters ==
    <<"A", "B", "C", "D", "E", "F", "G", "H", "I", "J", "K", "L", "M", "N", "O", "P", "Q", "R", "S", "T", "U", "V", "W", "X", "Y", "Z">>
LowerLetters ==
    <<"a", "b", "c", "d", "e", "f", "g", "h", "i", "j", "k", "l", "m", "n", "o", "p", "q", "r", "s", "t", "u", "v", "w", "x", "y", "z">>

\* str.lower() on one character
LowerChar(c) ==
    IF \E i \in 1..Len(UpperLetters) : UpperLetters[i] = c
    THEN LowerLetters[CHOOSE i \in 1..Len(UpperLetters) : UpperLetters[i] = c]
    ELSE c

\* str.lower()
LowerText(s) == [i \in 1..Len(s) |-> LowerChar(s[i])]

IsSpace(c) == c \in {" ", "\t", "\n"}

RECURSIVE LStrip(_)
LStrip(s) ==
    IF s # <<>> /\ IsSpace(Head(s)) THEN LStrip(Tail(s)) ELSE s

RECURSIVE RStrip(_)
RStrip(s) ==
    IF s # <<>> /\ IsSpace(s[Len(s)]) THEN RStrip(SubSeq(s, 1, Len(s) - 1)) ELSE s

\* str.strip()
Strip(s) == RStrip(LStrip(s))

\* pat occurs in s at position i
MatchAt(s, pat, i) ==
    /\ i + Len(pat) - 1 <= Len(s)
    /\ SubSeq(s, i, i + Len(pat) - 1) = pat

\* pat in s
Contains(s, pat) == \E i \in 1..Len(s) : MatchAt(s, pat, i)

\* str.split(pat): left to right, occurrences do not overlap
RECURSIVE SplitFrom(_, _, _, _)
SplitFrom(s, pat, i, piece) ==
    IF i > Len(s) THEN <<piece>>
    ELSE IF MatchAt(s, pat, i)
         THEN <<piece>> \o SplitFrom(s, pat, i + Len(pat), <<>>)
         ELSE SplitFrom(s, pat, i + 1, Append(piece, s[i]))

Split(s, pat) == SplitFrom(s, pat, 1, <<>>)

\* new.join(pieces)
RECURSIVE Join(_, _)
Join(pieces, new) ==
    IF Len(pieces) = 1 THEN pieces[1]
    ELSE pieces[1] \o new \o Join(Tail(pieces), new)

\* str.replace(old, new)
Replace(s, old, new) == Join(Split(s, old), new)

Last(q) == q[Len(q)]

----------------------------------------------------------------------------
(* Text of the inputs *)

KilledByEvilBob ==
    <<"K", "i", "l", "l", "e", "d", " ", "b", "y", " ", "E", "v", "i", "l", " ", "B", "o", "b", ".">>
KilledByEvilBobAndEvilAlice ==
    <<"K", "i", "l", "l", "e", "d", " ", "b", "y", " ", "E", "v", "i", "l", " ", "B", "o", "b", " ", "a", "n", "d", " ", "E", "v", "i", "l", " ", "A", "l", "i", "c", "e", ".">>
KilledByOrcAndEvilBob ==
    <<"K", "i", "l", "l", "e", "d", " ", "b", "y", " ", "O", "r", "c", " ", "a", "n", "d", " ", "E", "v", "i", "l", " ", "B", "o", "b", ".">>
DiedOfLifeLoss ==
    <<"D", "i", "e", "d", " ", "o", "f", " ", "l", "i", "f", "e", " ", "l", "o", "s", "s", ".">>
BareEvilBob ==
    <<"E", "v", "i", "l", " ", "B", "o", "b", ".">>
NameEvilBob ==
    <<"E", "v", "i", "l", " ", "B", "o", "b">>
NameEvilAlice ==
    <<"E", "v", "i", "l", " ", "A", "l", "i", "c", "e">>
NameAlice ==
    <<"A", "l", "i", "c", "e">>
NameBob ==
    <<"B", "o", "b">>
NameCarol ==
    <<"C", "a", "r", "o", "l">>

By == <<"b", "y">>
And == <<" ", "a", "n", "d", " ">>
Dot == <<".">>

KillerTexts ==
    {KilledByEvilBob, KilledByEvilBobAndEvilAlice, KilledByOrcAndEvilBob,
     DiedOfLifeLoss, BareEvilBob}

----------------------------------------------------------------------------
(* Time.  A death's "time" is None, a naive datetime or an aware one; t is *)
(* the instant in seconds.                                                 *)

NoTime == [kind |-> "none", t |-> 0]
Naive(t) == [kind |-> "naive", t |-> t]
Aware(t) == [kind |-> "aware", t |-> t]

\* datetime.timedelta(hours=12), in seconds
WindowHours == 12
Window == WindowHours * 3600

Now0 == 2 * Window

DeathTimes ==
    {NoTime, Naive(Now0 - 60),
     Aware(Now0 - Window - 1),     \* 12 hours and 1 second before now
     Aware(Now0 - Window),         \* 12 hours before now
     Aware(Now0 - Window + 60)}    \* 11 hours 59 minutes before now

DeathPool == [time : DeathTimes, killer : KillerTexts]

RECURSIVE SeqsUpTo(_, _)
SeqsUpTo(S, n) ==
    IF n = 0 THEN {<<>>}
    ELSE LET shorter == SeqsUpTo(S, n - 1)
         IN  shorter \cup {Append(q, x) : q \in {r \in shorter : Len(r) = n - 1}, x \in S}

----------------------------------------------------------------------------
(* DeathCheckerTask._process_character_deaths, the loop over deaths *)

\* the enemy-name set of check_character_deaths_by_enemies
EnemyNames(names) == {LowerText(n) : n \in {m \in names : m # <<>>}}

\* a variant of the time test that also skips a death exactly 12 hours old
WindowCheckInclusive(time, now) ==
    IF time.kind = "none" THEN "skip"
    ELSE IF time.kind = "naive" THEN "raise"
    ELSE IF time.t <= now - (12 * 3600) THEN "skip"
    ELSE "keep"

\* the test that skips a death: "skip", "keep", or "raise" (a naive datetime
\* compared with an aware one is a TypeError)
WindowCheck(time, now) ==
    IF time.kind = "none" THEN "skip"
    ELSE IF time.kind = "naive" THEN "raise"
    ELSE IF time.t < now - Window THEN "skip"
    ELSE "keep"

\* killer.split("by")[-1].strip().lower().replace(".", "")
KillerString(killer) ==
    Replace(LowerText(Strip(Last(Split(killer, By)))), Dot, <<>>)

\* [name.strip() for name in killer_string.split(" and ")]
KillerNames(killer) ==
    LET pieces == Split(KillerString(killer), And)
    IN  [i \in 1..Len(pieces) |-> Strip(pieces[i])]

KillEntry(name, death) ==
    [character_name |-> name, time |-> death.time, killer |-> death.killer]

\* a variant of the loop over killer_names without its break
RECURSIVE ScanKillersNoBreak(_, _, _, _, _)
ScanKillersNoBreak(names, i, enemies, entry, entries) ==
    IF i > Len(names) THEN entries
    ELSE IF names[i] \in enemies
         THEN ScanKillersNoBreak(names, i + 1, enemies, entry, Append(entries, entry))
         ELSE ScanKillersNoBreak(names, i + 1, enemies, entry, entries)

\* for killer_name in killer_names: if killer_name in enemies: append; break
RECURSIVE ScanKillers(_, _, _, _, _)
ScanKillers(names, i, enemies, entry, entries) ==
    IF i > Len(names) THEN entries
    ELSE IF names[i] \in enemies
         THEN Append(entries, entry)
         ELSE ScanKillers(names, i + 1, enemies, entry, entries)

\* a variant of the delimiter test that accepts every text
HasDelimiterAlways(killer) == TRUE

\* "by" in killer
HasDelimiter(killer) == Contains(killer, By)

\* the body of the loop after the time test: killed_entries afterwards
MatchDeath(name, death, enemies, entries) ==
    IF HasDelimiter(death.killer)
    THEN ScanKillers(KillerNames(death.killer), 1, enemies,
                     KillEntry(name, death), entries)
    ELSE entries

\* the whole call: [exc |-> whether it raised, entries |-> what it returned]
RECURSIVE ProcessFrom(_, _, _, _, _, _)
ProcessFrom(name, deaths, enemies, now, i, entries) ==
    IF i > Len(deaths) THEN [exc |-> FALSE, entries |-> entries]
    ELSE LET check == WindowCheck(deaths[i].time, now)
         IN  IF check = "raise" THEN [exc |-> TRUE, entries |-> <<>>]
             ELSE IF check = "skip"
                  THEN ProcessFrom(name, deaths, enemies, now, i + 1, entries)
                  ELSE ProcessFrom(name, deaths, enemies, now, i + 1,
                                   MatchDeath(name, deaths[i], enemies, entries))

ProcessDeaths(name, deaths, enemies, now) ==
    ProcessFrom(name, deaths, enemies, now, 1, <<>>)

----------------------------------------------------------------------------
(* The remote death log and TibiantisScraper.get_character_deaths_async *)

\* a row's time text: the wall-clock seconds it states and its zone text,
\* "CEST", "CET", "none" (no zone), "other" (another abbreviation) or
\* "garbage" (not a date)
RawTime(wall, zone) == [wall |-> wall, zone |-> zone]

\* tzinfos = {"CEST": 7200, "CET": 3600}
OffsetCEST == 7200
OffsetCET == 3600

\* parser.parse(time_str, tzinfos=tzinfos), None on ValueError
ParseTime(raw) ==
    IF raw.zone = "garbage" THEN NoTime
    ELSE IF raw.zone = "CEST" THEN Aware(raw.wall - OffsetCEST)
    ELSE IF raw.zone = "CET" THEN Aware(raw.wall - OffsetCET)
    ELSE Naive(raw.wall)

\* a row of the "Latest Deaths" table after the header row: the number of
\* its td cells, the text of the first and the text of the second
DeathRow(cols, time, killer) == [cols |-> cols, time |-> time, killer |-> killer]

\* _parse_death_data: one entry per row of the "Latest Deaths" table; cols[1]
\* of a row with fewer than two cells raises IndexError, which the handler of
\* lines 242-244 turns into "return []"
ParseDeathData(page) ==
    IF ~page.deathTable THEN <<>>
    ELSE IF \E i \in DOMAIN page.rows : page.rows[i].cols < 2 THEN <<>>
    ELSE [i \in 1..Len(page.rows) |->
            [time |-> ParseTime(page.rows[i].time), killer |-> page.rows[i].killer]]

\* get_character_deaths_async: every exception ends in "return []"
GetCharacterDeaths(response) ==
    IF response.error THEN <<>> ELSE ParseDeathData(response.page)

RecentCEST == RawTime(Now0 - 60 + OffsetCEST, "CEST")
RecentNoZone == RawTime(Now0 - 60, "none")

PageNoDeaths == [deathTable |-> FALSE, rows |-> <<>>]
PageEnemyKill ==
    [deathTable |-> TRUE, rows |-> <<DeathRow(2, RecentCEST, KilledByEvilBob)>>]
PageTwoKills ==
    [deathTable |-> TRUE,
     rows |-> <<DeathRow(2, RecentCEST, KilledByOrcAndEvilBob),
                DeathRow(2, RecentCEST, KilledByEvilBobAndEvilAlice)>>]
PageNoZone ==
    [deathTable |-> TRUE, rows |-> <<DeathRow(2, RecentNoZone, KilledByEvilBob)>>]

NetworkError == [error |-> TRUE, page |-> PageNoDeaths]
Responses ==
    {NetworkError} \cup
    {[error |-> FALSE, page |-> pg] :
        pg \in {PageNoDeaths, PageEnemyKill, PageTwoKills, PageNoZone}}

----------------------------------------------------------------------------
(* The store *)

\* a row of characters (id, name, level) and a row of enemy_characters
Char(id, name, level) == [id |-> id, name |-> name, level |-> level]
Enemy(id, character_id) == [id |-> id, character_id |-> character_id]

\* enemy.character.name of every enemy row that has a character with a name
EnemyCharacterNames(enemies, chars) ==
    {chars[k].name : k \in {j \in DOMAIN chars :
        chars[j].name # <<>> /\ \E en \in enemies : en.character_id = chars[j].id}}

\* CharacterRepository.get_high_level_characters(min_level)
GetHighLevelCharacters(chars, min_level) ==
    SelectSeq(chars, LAMBDA c : c.level >= min_level)

MinLevel == 30

StoreInit ==
    /\ storeChars \in
         {<<Char(1, NameAlice, 45), Char(2, NameBob, 30), Char(3, NameCarol, lvl),
            Char(4, NameEvilBob, 25), Char(5, NameEvilAlice, 28)>> : lvl \in {29, 31}}
    /\ storeEnemies \in {{Enemy(1, 4)}, {Enemy(1, 4), Enemy(2, 5)}}
    /\ nextCharId = 6
    /\ nextEnemyId = 3

StoreEmpty ==
    /\ storeChars = <<>>
    /\ storeEnemies = {}
    /\ nextCharId = 1
    /\ nextEnemyId = 1

\* the processes that write to the store: the FastAPI application, the bot
\* (its commands) and the roster refresh of PlayerScraperTask
Procs == {"api", "bot", "refresh"}

\* a process that runs no handler
IdleProc ==
    [pc |-> "idle", op |-> "none", name |-> <<>>, new_name |-> <<>>, cid |-> 0,
     session |-> "none", rolledBack |-> FALSE, msgs |-> <<>>, out |-> "none",
     changed |-> FALSE, republished |-> FALSE, user |-> "none",
     level |-> 0, rest |-> <<>>]

OpIdle ==
    /\ proc = [p \in Procs |-> IdleProc]
    /\ opsStarted = 0
    /\ rosterReport = {}
    /\ readyEvents = 0

----------------------------------------------------------------------------
(* DeathCheckerTask._send_enemy_kills_table *)

\* channel.history(limit=50)
HistoryLimit == 50

\* the header a message bears: the one of the kills table, the one of the
\* enemy list, or neither
KillsHeader == "kills"
RosterHeader == "roster"
NoHeader == "none"

Message(author, marker, rows) == [author |-> author, marker |-> marker, rows |-> rows]

\* message.author.id == bot.user.id and the header is in message.content
IsOldTable(m) == m.author = "bot" /\ m.marker = KillsHeader

\* positions of the last n messages, newest first
RECURSIVE Newest(_, _)
Newest(len, n) ==
    IF n = 0 \/ len = 0 THEN <<>> ELSE <<len>> \o Newest(len - 1, n - 1)

\* a variant of the scan that reads the oldest messages of the channel
ScanTargetsOldestFirst(ch) ==
    SelectSeq([i \in 1..(IF Len(ch) < HistoryLimit THEN Len(ch) ELSE HistoryLimit) |->
                  (IF Len(ch) < HistoryLimit THEN Len(ch) ELSE HistoryLimit) + 1 - i],
              LAMBDA k : IsOldTable(ch[k]))

\* the messages the scan of the history will delete, newest first
ScanTargets(ch) ==
    SelectSeq(Newest(Len(ch), HistoryLimit), LAMBDA k : IsOldTable(ch[k]))

RemoveAt(q, k) == SubSeq(q, 1, k - 1) \o SubSeq(q, k + 1, Len(q))

\* the message built from the batch: the header, then the placeholder or one
\* row per entry
KillsTable(batch) == Message("bot", KillsHeader, Len(batch))

LiveTables(ch) == {k \in 1..Len(ch) : IsOldTable(ch[k])}

\* lines 147-164: get the bot and the channel, then read the history
PubScan ==
    /\ pubPc = "start"
    /\ \E found \in {"ok", "no_channel", "history_fails"} :
         IF found = "no_channel"
         THEN /\ pubPc' = "done"
              /\ pending' = <<>>
              /\ pubErrorLogged' = TRUE
         ELSE IF found = "history_fails"
         THEN /\ pubPc' = "scan_failed"
              /\ pending' = <<>>
              /\ pubErrorLogged' = pubErrorLogged
         ELSE /\ pending' = ScanTargets(channel)
              /\ pubPc' = IF ScanTargets(channel) = <<>> THEN "send" ELSE "delete"
              /\ pubErrorLogged' = pubErrorLogged
    /\ UNCHANGED <<pubBatch, channel, pubCalls, otherPosts>>

\* a variant of the handler of the scan that gives the publish up
PubScanFailedReturns ==
    /\ pubPc = "scan_failed"
    /\ pubPc' = "done"
    /\ pubErrorLogged' = TRUE
    /\ UNCHANGED <<pubBatch, pending, channel, pubCalls, otherPosts>>

\* lines 169-171: the handler around the scan logs and goes on
PubScanFailed ==
    /\ pubPc = "scan_failed"
    /\ pubPc' = "send"
    /\ pubErrorLogged' = TRUE
    /\ UNCHANGED <<pubBatch, pending, channel, pubCalls, otherPosts>>

\* lines 164-168: delete the next old table; a failure leaves the loop
PubDelete ==
    /\ pubPc = "delete"
    /\ \E ok \in BOOLEAN :
         IF ok
         THEN /\ channel' = RemoveAt(channel, Head(pending))
              /\ pending' = Tail(pending)
              /\ pubPc' = IF Tail(pending) = <<>> THEN "send" ELSE "delete"
              /\ pubErrorLogged' = pubErrorLogged
         ELSE /\ channel' = channel
              /\ pending' = <<>>
              /\ pubPc' = "scan_failed"
              /\ pubErrorLogged' = pubErrorLogged
    /\ UNCHANGED <<pubBatch, pubCalls, otherPosts>>

\* lines 173-218: build the message and send it
PubSend ==
    /\ pubPc = "send"
    /\ \E ok \in BOOLEAN :
         /\ channel' = IF ok THEN Append(channel, KillsTable(pubBatch)) ELSE channel
         /\ pubErrorLogged' = (pubErrorLogged \/ ~ok)
    /\ pubPc' = "done"
    /\ UNCHANGED <<pubBatch, pending, pubCalls, otherPosts>>

\* other users post to the channel
OtherPost ==
    /\ otherPosts < MaxOtherPosts
    /\ \E n \in {1, HistoryLimit}, marker \in {KillsHeader, NoHeader} :
         channel' = channel \o [i \in 1..n |-> Message("user", marker, 0)]
    /\ otherPosts' = otherPosts + 1
    /\ UNCHANGED <<pubPc, pubBatch, pending, pubErrorLogged, pubCalls>>

PubInit ==
    /\ pubPc = "idle"
    /\ pubBatch = <<>>
    /\ pending = <<>>
    /\ channel = <<>>
    /\ pubErrorLogged = FALSE
    /\ pubCalls = 0
    /\ otherPosts = 0

----------------------------------------------------------------------------
(* DeathCheckerTask.check_character_deaths_by_enemies *)

NoResult == [exc |-> FALSE, entries |-> <<>>]

Task(st, fetch, res) == [st |-> st, fetch |-> fetch, res |-> res]

\* a variant of gather that raises the first exception of a task
GatherRaisesFirst(ts) == \E i \in DOMAIN ts : ts[i].st = "done" /\ ts[i].res.exc

\* asyncio.gather(*tasks, return_exceptions=True) never raises a task's exception
GatherRaises(ts) == FALSE

\* a variant of gather that returns when the first task is done
GatherDoneFirst(ts) == \E i \in DOMAIN ts : ts[i].st = "done"

\* asyncio.gather returns when every task is done
GatherDone(ts) == \A i \in DOMAIN ts : ts[i].st = "done"

\* the list gather returns: one slot per task, in the order of the tasks
GatherResults(ts) == [i \in DOMAIN ts |-> ts[i].res]

\* lines 69-74: skip the exceptions, extend with the non-empty results
RECURSIVE Aggregate(_, _, _)
Aggregate(results, i, acc) ==
    IF i > Len(results) THEN acc
    ELSE IF results[i].exc THEN Aggregate(results, i + 1, acc)
    ELSE Aggregate(results, i + 1, acc \o results[i].entries)

RunInit ==
    /\ runPc = "idle"
    /\ high_level_characters = <<>>
    /\ enemy_names = {}
    /\ tasks = <<>>
    /\ killed_by_enemies = <<>>
    /\ returned = <<>>
    /\ runExc = "none"
    /\ taskErrors = 0
    /\ dbSession = "none"
    /\ dbRolledBack = FALSE

\* what a read of the store does: it answers, or the driver raises
StoreReads == {"ok", "OperationalError"}

\* a handler that catches ValueError only
ExceptValueError(exc) == exc = "ValueError"

\* "except Exception": base_task.py:37, death_checker.py:85 and
\* death_checker_task.py:26 catch every exception class of the model
ExceptException(exc) ==
    exc \in {"OperationalError", "ValueError", "TypeError", "IntegrityError",
             "AttributeError", "StaleDataError"}

\* lines 39-66: open the session, read the rosters, make one coroutine per
\* character and await gather; a read that raises leaves through
\* get_db_session (rollback, close) and the handler of lines 85-87
StartRun ==
    /\ runPc = "idle"
    /\ killed_by_enemies' = <<>>
    /\ returned' = <<>>
    /\ \E read \in StoreReads :
         IF read = "ok"
         THEN /\ LET roster == GetHighLevelCharacters(storeChars, MinLevel)
                 IN  /\ high_level_characters' = roster
                     /\ tasks' = [i \in 1..Len(roster) |->
                                     Task("scheduled", "none", NoResult)]
              /\ enemy_names' = EnemyNames(EnemyCharacterNames(storeEnemies, storeChars))
              /\ dbSession' = "open"
              /\ dbRolledBack' = FALSE
              /\ runExc' = "none"
              /\ taskErrors' = taskErrors
              /\ runPc' = "gather"
         ELSE /\ high_level_characters' = <<>>
              /\ tasks' = <<>>
              /\ enemy_names' = {}
              /\ dbSession' = "closed"
              /\ dbRolledBack' = ExceptException(read)
              /\ IF ExceptException(read)
                 THEN /\ runExc' = "none"
                      /\ taskErrors' = taskErrors + 1
                      /\ runPc' = "returned"
                 ELSE /\ runExc' = read
                      /\ taskErrors' = taskErrors
                      /\ runPc' = "raised"

\* _process_character_deaths up to its await: lines 100-106
TaskStart(i) ==
    /\ i \in DOMAIN tasks
    /\ tasks[i].st = "scheduled"
    /\ tasks' = [tasks EXCEPT ![i] =
                    IF high_level_characters[i].name = <<>>
                    THEN Task("done", "none", NoResult)
                    ELSE Task("fetching", "none", NoResult)]
    /\ UNCHANGED <<runPc, high_level_characters, enemy_names, killed_by_enemies, returned,
                   runExc, taskErrors, dbSession, dbRolledBack>>

\* the fetch ends and _process_character_deaths runs to its end: lines 106-138
TaskFinish(i) ==
    /\ i \in DOMAIN tasks
    /\ tasks[i].st = "fetching"
    /\ \E response \in Responses :
         tasks' = [tasks EXCEPT ![i] =
                     Task("done",
                          IF response.error THEN "error" ELSE "page",
                          ProcessDeaths(high_level_characters[i].name,
                                        GetCharacterDeaths(response),
                                        enemy_names, Now0))]
    /\ UNCHANGED <<runPc, high_level_characters, enemy_names, killed_by_enemies, returned,
                   runExc, taskErrors, dbSession, dbRolledBack>>

\* gather returns: lines 66-75, or the handler of lines 85-87
Resume ==
    /\ runPc = "gather"
    /\ GatherDone(tasks) \/ GatherRaises(tasks)
    /\ IF GatherRaises(tasks)
       THEN /\ killed_by_enemies' = <<>>
            /\ returned' = <<>>
            /\ runPc' = "returned"
            /\ taskErrors' = taskErrors + 1
            /\ dbSession' = "closed"
            /\ dbRolledBack' = TRUE
       ELSE /\ killed_by_enemies' = Aggregate(GatherResults(tasks), 1, <<>>)
            /\ returned' = <<>>
            /\ runPc' = "aggregated"
            /\ UNCHANGED <<taskErrors, dbSession, dbRolledBack>>
    /\ UNCHANGED <<high_level_characters, enemy_names, tasks, runExc>>

\* lines 76-83: send the table when there are entries, then return them;
\* the return leaves the with block of line 42, which closes the session
Report ==
    /\ runPc = "aggregated"
    /\ IF killed_by_enemies # <<>>
       THEN /\ runPc' = "publish"
            /\ pubPc' = "start"
            /\ pubBatch' = killed_by_enemies
            /\ returned' = returned
            /\ dbSession' = dbSession
       ELSE /\ runPc' = "returned"
            /\ returned' = killed_by_enemies
            /\ dbSession' = "closed"
            /\ UNCHANGED <<pubPc, pubBatch>>
    /\ UNCHANGED <<high_level_characters, enemy_names, tasks, killed_by_enemies,
                   runExc, taskErrors, dbRolledBack, pending, channel, pubErrorLogged, pubCalls, otherPosts>>

\* a variant of the return in which a failed publish empties the result
ReportDoneDropsOnFailure ==
    /\ runPc = "publish"
    /\ pubPc = "done"
    /\ pubPc' = "idle"
    /\ runPc' = "returned"
    /\ returned' = IF pubErrorLogged THEN <<>> ELSE killed_by_enemies
    /\ dbSession' = "closed"
    /\ UNCHANGED <<high_level_characters, enemy_names, tasks, killed_by_enemies,
                   runExc, taskErrors, dbRolledBack, pubBatch, pending, channel, pubErrorLogged, pubCalls, otherPosts>>

\* line 83 after _send_enemy_kills_table has returned
ReportDone ==
    /\ runPc = "publish"
    /\ pubPc = "done"
    /\ pubPc' = "idle"
    /\ runPc' = "returned"
    /\ returned' = killed_by_enemies
    /\ dbSession' = "closed"
    /\ UNCHANGED <<high_level_characters, enemy_names, tasks, killed_by_enemies,
                   runExc, taskErrors, dbRolledBack, pubBatch, pending, channel, pubErrorLogged, pubCalls, otherPosts>>

----------------------------------------------------------------------------
(* Client.setup_hook and the scheduler loop of bot/tasks/death_checker_task.py *)

\* a variant of before_check_deaths that does not wait
WaitUntilReadyPassed(state) == TRUE

\* await self.bot.wait_until_ready() has returned
WaitUntilReady(state) == state = "ready"

BotInit ==
    /\ botState = "constructed"
    /\ loopPc = "unstarted"
    /\ passes = 0
    /\ intervals = 0

\* Client.setup_hook: DeathCheckerTask(self) starts check_deaths_loop
SetupHook ==
    /\ botState = "constructed"
    /\ botState' = "setup"
    /\ loopPc' = "before_loop"
    /\ UNCHANGED <<passes, intervals>>

\* the gateway reports READY
BotReady ==
    /\ botState = "setup"
    /\ botState' = "ready"
    /\ UNCHANGED <<loopPc, passes, intervals>>

\* a loop that waits for one interval before its first iteration
AfterBeforeLoopSleeps == "sleeping"

\* tasks.loop runs the first iteration as soon as before_loop has returned
AfterBeforeLoop == "due"

\* before_check_deaths returns and the loop is entered
BeforeLoopDone ==
    /\ loopPc = "before_loop"
    /\ WaitUntilReady(botState)
    /\ loopPc' = AfterBeforeLoop
    /\ UNCHANGED <<botState, passes, intervals>>

\* check_deaths_loop calls check_character_deaths_by_enemies
StartPass ==
    /\ loopPc = "due"
    /\ passes < MaxPasses
    /\ loopPc' = "running"
    /\ passes' = passes + 1
    /\ StartRun
    /\ UNCHANGED <<botState, intervals>>

\* lines 23-27: the call has returned, or raised into the handler of line 26;
\* the loop then sleeps for the interval. An exception the handler does not
\* catch ends the loop.
PassDone ==
    /\ loopPc = "running"
    /\ runPc \in {"returned", "raised"}
    /\ loopPc' = IF runPc = "returned" \/ ExceptException(runExc)
                 THEN "sleeping" ELSE "stopped"
    /\ runPc' = "idle"
    /\ runExc' = "none"
    /\ tasks' = <<>>
    /\ high_level_characters' = <<>>
    /\ killed_by_enemies' = <<>>
    /\ dbSession' = "none"
    /\ dbRolledBack' = FALSE
    /\ UNCHANGED <<botState, passes, intervals, enemy_names, returned, taskErrors>>

\* TABLE_REFRESH_INTERVAL minutes have passed
IntervalElapsed ==
    /\ loopPc = "sleeping"
    /\ loopPc' = "due"
    /\ intervals' = intervals + 1
    /\ UNCHANGED <<botState, passes>>

-----
(* The loop of _process_character_deaths as steps *)

EnemyRosters == {{}, {NameEvilBob}, {NameEvilBob, NameEvilAlice}}

ScrapeIdle == scrRemote = <<>> /\ scrResult = <<>>

ParseIdle == dlTable = <<>> /\ dlResult = <<>>

\* asyncio tasks that may call refresh_character_death_and_update_table
Callers == {1, 2}

NotCalling == [pc |-> "idle", lock |-> 0, sent |-> FALSE]

LockIdle == refreshCalls = [c \in Callers |-> NotCalling] /\ locks = <<>>

PipelineIdle ==
    BotInit /\ RunInit /\ PubInit /\ ScrapeIdle /\ ParseIdle /\ LockIdle /\ OpIdle /\ StoreEmpty

pipelineVars == <<botVars, storeVars, runVars, pubVars, scrapeVars, parseVars, lockVars, opVars>>

MatchInit ==
    /\ PipelineIdle
    /\ pName = NameAlice
    /\ pDeaths \in SeqsUpTo(DeathPool, MaxDeaths)
    /\ pEnemies \in {EnemyNames(r) : r \in EnemyRosters}
    /\ pNow = Now0
    /\ pIdx = 1
    /\ pPc = "filter"
    /\ killed_entries = <<>>

MatchIdle ==
    /\ pName = <<>>
    /\ pDeaths = <<>>
    /\ pEnemies = {}
    /\ pNow = Now0
    /\ pIdx = 1
    /\ pPc = "returned"
    /\ killed_entries = <<>>

\* lines 110-116: the time test of one death
FilterDeath ==
    /\ pPc = "filter"
    /\ pIdx <= Len(pDeaths)
    /\ LET check == WindowCheck(pDeaths[pIdx].time, pNow)
       IN  /\ pPc' = IF check = "raise" THEN "raised"
                     ELSE IF check = "skip" THEN "filter" ELSE "match"
           /\ pIdx' = IF check = "skip" THEN pIdx + 1 ELSE pIdx
    /\ UNCHANGED <<pName, pDeaths, pEnemies, pNow, killed_entries, pipelineVars>>

\* lines 118-136: the killer test of a death that passed the time test
MatchStep ==
    /\ pPc = "match"
    /\ killed_entries' = MatchDeath(pName, pDeaths[pIdx], pEnemies, killed_entries)
    /\ pIdx' = pIdx + 1
    /\ pPc' = "filter"
    /\ UNCHANGED <<pName, pDeaths, pEnemies, pNow, pipelineVars>>

\* line 138
ReturnEntries ==
    /\ pPc = "filter"
    /\ pIdx > Len(pDeaths)
    /\ pPc' = "returned"
    /\ UNCHANGED <<pName, pDeaths, pEnemies, pNow, pIdx, killed_entries, pipelineVars>>

MatchNext == FilterDeath \/ MatchStep \/ ReturnEntries

SpecMatch == MatchInit /\ [][MatchNext]_vars

----------------------------------------------------------------------------
(* The bot process: scheduler, correlation run, report *)

Init ==
    /\ MatchIdle
    /\ ScrapeIdle
    /\ ParseIdle
    /\ LockIdle
    /\ OpIdle
    /\ BotInit
    /\ StoreInit
    /\ RunInit
    /\ PubInit

Next ==
    \/ SetupHook /\ UNCHANGED <<matchVars, scrapeVars, parseVars, lockVars, opVars, storeVars, runVars, pubVars>>
    \/ BotReady /\ UNCHANGED <<matchVars, scrapeVars, parseVars, lockVars, opVars, storeVars, runVars, pubVars>>
    \/ BeforeLoopDone /\ UNCHANGED <<matchVars, scrapeVars, parseVars, lockVars, opVars, storeVars, runVars, pubVars>>
    \/ StartPass /\ UNCHANGED <<matchVars, scrapeVars, parseVars, lockVars, opVars, storeVars, pubVars>>
    \/ \E i \in 1..Len(storeChars) : TaskStart(i) /\ UNCHANGED <<matchVars, scrapeVars, parseVars, lockVars, opVars, botVars, storeVars, pubVars>>
    \/ \E i \in 1..Len(storeChars) : TaskFinish(i) /\ UNCHANGED <<matchVars, scrapeVars, parseVars, lockVars, opVars, botVars, storeVars, pubVars>>
    \/ Resume /\ UNCHANGED <<matchVars, scrapeVars, parseVars, lockVars, opVars, botVars, storeVars, pubVars>>
    \/ Report /\ UNCHANGED <<matchVars, scrapeVars, parseVars, lockVars, opVars, botVars, storeVars>>
    \/ PubScan /\ UNCHANGED <<matchVars, scrapeVars, parseVars, lockVars, opVars, botVars, storeVars, runVars>>
    \/ PubDelete /\ UNCHANGED <<matchVars, scrapeVars, parseVars, lockVars, opVars, botVars, storeVars, runVars>>
    \/ PubScanFailed /\ UNCHANGED <<matchVars, scrapeVars, parseVars, lockVars, opVars, botVars, storeVars, runVars>>
    \/ PubSend /\ UNCHANGED <<matchVars, scrapeVars, parseVars, lockVars, opVars, botVars, storeVars, runVars>>
    \/ ReportDone /\ UNCHANGED <<matchVars, scrapeVars, parseVars, lockVars, opVars, botVars, storeVars>>
    \/ PassDone /\ UNCHANGED <<matchVars, scrapeVars, parseVars, lockVars, opVars, storeVars, pubVars>>
    \/ IntervalElapsed /\ UNCHANGED <<matchVars, scrapeVars, parseVars, lockVars, opVars, storeVars, runVars, pubVars>>

Spec == Init /\ [][Next]_vars

----------------------------------------------------------------------------
(* _send_enemy_kills_table called directly, any batch, any number of times *)

Batches ==
    {<<>>, <<KillEntry(NameAlice, [time |-> Aware(Now0 - 60), killer |-> KilledByEvilBob])>>}

PublishInit ==
    /\ MatchIdle
    /\ ScrapeIdle
    /\ ParseIdle
    /\ LockIdle
    /\ OpIdle
    /\ BotInit
    /\ RunInit
    /\ PubInit
    /\ StoreEmpty

\* await self._send_enemy_kills_table(batch)
CallPublish ==
    /\ pubPc = "idle"
    /\ pubCalls < MaxPublishes
    /\ \E batch \in Batches : pubBatch' = batch
    /\ pubPc' = "start"
    /\ pubCalls' = pubCalls + 1
    /\ UNCHANGED <<pending, channel, pubErrorLogged, otherPosts>>

\* the call has returned
PublishReturn ==
    /\ pubPc = "done"
    /\ pubPc' = "idle"
    /\ UNCHANGED <<pubBatch, pending, channel, pubErrorLogged, pubCalls, otherPosts>>

PublishNext ==
    \/ CallPublish /\ UNCHANGED <<matchVars, scrapeVars, parseVars, lockVars, opVars, botVars, storeVars, runVars>>
    \/ PubScan /\ UNCHANGED <<matchVars, scrapeVars, parseVars, lockVars, opVars, botVars, storeVars, runVars>>
    \/ PubDelete /\ UNCHANGED <<matchVars, scrapeVars, parseVars, lockVars, opVars, botVars, storeVars, runVars>>
    \/ PubScanFailed /\ UNCHANGED <<matchVars, scrapeVars, parseVars, lockVars, opVars, botVars, storeVars, runVars>>
    \/ PubSend /\ UNCHANGED <<matchVars, scrapeVars, parseVars, lockVars, opVars, botVars, storeVars, runVars>>
    \/ PublishReturn /\ UNCHANGED <<matchVars, scrapeVars, parseVars, lockVars, opVars, botVars, storeVars, runVars>>
    \/ OtherPost /\ UNCHANGED <<matchVars, scrapeVars, parseVars, lockVars, opVars, botVars, storeVars, runVars>>

SpecPublish == PublishInit /\ [][PublishNext]_vars

----------------------------------------------------------------------------
(* TibiantisScraper.get_character_data with BaseScraper.scrape_page *)

\* a row of class "hover": the number of its cells, its label as
\* cols[0].text.strip().lower().rstrip(':') and the text of its value
Row(cols, key, value) == [cols |-> cols, key |-> key, value |-> value]

\* the labels of fields_to_scrape
KnownLabels ==
    {"name", "sex", "vocation", "level", "world", "residence", "house",
     "guild membership", "last login", "comment", "account status"}

\* the field a label is stored under
FieldOf(key) ==
    IF key = "guild membership" THEN "guild_membership"
    ELSE IF key = "last login" THEN "last_login"
    ELSE IF key = "account status" THEN "account_status"
    ELSE key

\* int(value) for the texts of the inputs; None for a text that is no number
IntOf(value) ==
    IF value = "45" THEN [known |-> TRUE, int |-> 45, text |-> ""]
    ELSE [known |-> FALSE, int |-> 0, text |-> ""]

TextValue(value) == [known |-> TRUE, int |-> 0, text |-> value]

\* lines 92-135: the dict after the rows, as a function from field to value
RECURSIVE ScrapeRows(_, _, _)
ScrapeRows(rows, i, data) ==
    IF i > Len(rows) THEN data
    ELSE IF rows[i].cols < 2 \/ rows[i].key \notin KnownLabels
         THEN ScrapeRows(rows, i + 1, data)
         ELSE LET field == FieldOf(rows[i].key)
                  value == IF field = "level" THEN IntOf(rows[i].value)
                           ELSE TextValue(rows[i].value)
              IN  ScrapeRows(rows, i + 1,
                    [f \in DOMAIN data \cup {field} |->
                        IF f = field THEN value ELSE data[f]])

EmptyDict == [f \in {} |-> TextValue("")]

\* what get_character_data returns: None, or a dict
ReturnsNone == [none |-> TRUE, data |-> EmptyDict]
ReturnsDict(data) == [none |-> FALSE, data |-> data]

\* BaseScraper.make_request: None when requests raises a RequestException
MakeRequest(remote) ==
    IF remote.net = "request_exception" THEN [none |-> TRUE, rows |-> <<>>]
    ELSE [none |-> FALSE, rows |-> remote.rows]

\* lines 64-146
GetCharacterData(remote) ==
    LET soup == MakeRequest(remote)
    IN  IF soup.none THEN ReturnsNone
        ELSE IF soup.rows = <<>> THEN ReturnsNone
        ELSE ReturnsDict(ScrapeRows(soup.rows, 1, EmptyDict))

RowPool ==
    {Row(2, "name", "Alice"), Row(2, "level", "45"), Row(2, "level", "n/a"),
     Row(2, "married to", "Bob"), Row(1, "name", "")}

Remotes ==
    {[net |-> "request_exception", rows |-> <<>>]} \cup
    {[net |-> "ok", rows |-> rows] : rows \in SeqsUpTo(RowPool, MaxRows)}

Pending == [none |-> TRUE, data |-> [f \in {"pending"} |-> TextValue("")]]

ScrapeInit ==
    /\ MatchIdle
    /\ BotInit
    /\ RunInit
    /\ PubInit
    /\ StoreEmpty
    /\ ParseIdle
    /\ LockIdle
    /\ OpIdle
    /\ scrRemote \in [1..2 -> Remotes]
    /\ scrResult = [k \in 1..2 |-> Pending]

\* one call of get_character_data
Lookup(k) ==
    /\ scrResult[k] = Pending
    /\ scrResult' = [scrResult EXCEPT ![k] = GetCharacterData(scrRemote[k])]
    /\ UNCHANGED <<scrRemote, matchVars, botVars, storeVars, runVars, pubVars, parseVars, lockVars, opVars>>

ScrapeNext == \E k \in 1..2 : Lookup(k)

SpecScrape == ScrapeInit /\ [][ScrapeNext]_vars

----------------------------------------------------------------------------
(* Claims about the loop of _process_character_deaths (SpecMatch) *)

TwelveHours == 12 * 3600

InsideWindow(time, now) == time.kind = "aware" /\ time.t >= now - TwelveHours

\* some candidate name of the attribution is an enemy name
HasEnemyCandidate(killer, enemies) ==
    /\ Contains(killer, By)
    /\ \E i \in 1..Len(KillerNames(killer)) : KillerNames(killer)[i] \in enemies

\* C2: a death inside the time window whose attribution, split on " and ",
\* holds at least one enemy name makes the loop append exactly one entry, and
\* the entry carries the victim's name, the death's time and the killer text
\* as it came, however many of the candidates are enemies.
C2_OneMatchPerEvent ==
    [][(/\ pPc = "match"
        /\ InsideWindow(pDeaths[pIdx].time, pNow)
        /\ HasEnemyCandidate(pDeaths[pIdx].killer, pEnemies))
       => killed_entries' =
            Append(killed_entries,
                   [character_name |-> pName,
                    time |-> pDeaths[pIdx].time,
                    killer |-> pDeaths[pIdx].killer])]_vars

\* a death killed by two enemies has been processed and left one entry
C2_Witness ==
    /\ pIdx = 2
    /\ pPc = "filter"
    /\ pDeaths[1].killer = KilledByEvilBobAndEvilAlice
    /\ InsideWindow(pDeaths[1].time, pNow)
    /\ LowerText(NameEvilBob) \in pEnemies
    /\ LowerText(NameEvilAlice) \in pEnemies
    /\ Len(killed_entries) = 1
    /\ killed_entries[1].killer = KilledByEvilBobAndEvilAlice

\* C5: the time test discards a death whose time is unknown or earlier than
\* now minus 12 hours (the loop moves on and appends nothing), and passes a
\* death whose time is an instant not earlier than that on to the killer test.
\* The times of the claim are None and zone-aware instants.
C5_TimeWindow ==
    [][(pPc = "filter" /\ pIdx <= Len(pDeaths))
       => LET time == pDeaths[pIdx].time
          IN  /\ (time.kind = "none" \/ (time.kind = "aware" /\ time.t < pNow - TwelveHours))
                 => (pPc' = "filter" /\ pIdx' = pIdx + 1 /\ killed_entries' = killed_entries)
              /\ (time.kind = "aware" /\ time.t >= pNow - TwelveHours)
                 => (pPc' = "match" /\ pIdx' = pIdx)]_vars

\* a death 12 h 1 s old, by an enemy, was discarded and one 11 h 59 min old
\* has reached the killer test
C5_Witness ==
    /\ Len(pDeaths) = 2
    /\ pDeaths[1] = [time |-> Aware(pNow - TwelveHours - 1), killer |-> KilledByEvilBob]
    /\ pDeaths[2].time = Aware(pNow - TwelveHours + 60)
    /\ LowerText(NameEvilBob) \in pEnemies
    /\ pIdx = 2
    /\ pPc = "match"
    /\ killed_entries = <<>>

\* C6: a death whose killer text does not contain "by" appends no entry,
\* whatever the enemy names are.
C6_NoDelimiterNoMatch ==
    [][(pPc = "match" /\ ~Contains(pDeaths[pIdx].killer, By))
       => killed_entries' = killed_entries]_vars

\* "Died of life loss." inside the window has been processed with enemies
\* on the roster and left no entry
C6_Witness ==
    /\ pIdx = 2
    /\ pPc = "filter"
    /\ pDeaths[1].killer = DiedOfLifeLoss
    /\ InsideWindow(pDeaths[1].time, pNow)
    /\ pEnemies # {}
    /\ killed_entries = <<>>

----------------------------------------------------------------------------
(* Claims about one correlation run and the scheduler (Spec) *)

AfterGather == runPc \in {"aggregated", "publish", "returned"}

\* the batch of the run: the list under construction, then the value returned
RunBatch == IF runPc = "returned" THEN returned ELSE killed_by_enemies

Occurs(e, q) == \E j \in 1..Len(q) : q[j] = e

\* C1: after gather the run has one result slot per roster character, slot i
\* belonging to character i, and every entry of every character whose
\* processing did not fail is in the batch of the run, whatever happened to
\* the other characters.
C1_FailureIsolated ==
    AfterGather =>
        /\ Len(GatherResults(tasks)) = Len(high_level_characters)
        /\ \A i \in DOMAIN tasks :
             (tasks[i].st = "done" /\ ~tasks[i].res.exc) =>
                 \A k \in 1..Len(tasks[i].res.entries) :
                     /\ tasks[i].res.entries[k].character_name = high_level_characters[i].name
                     /\ Occurs(tasks[i].res.entries[k], RunBatch)

\* three characters, the processing of one failed, another has an entry and
\* the run has returned it
C1_Witness ==
    /\ runPc = "returned"
    /\ Len(high_level_characters) = 3
    /\ \E i, j \in DOMAIN tasks :
         /\ tasks[i].res.exc
         /\ ~tasks[j].res.exc
         /\ tasks[j].res.entries # <<>>
         /\ Occurs(tasks[j].res.entries[1], returned)

\* C3 as stated: a run that has completed without a failure and with an
\* empty batch has published the placeholder table, which is then the newest
\* message of the channel.
C3_EmptyBatchPublished ==
    (runPc = "returned" /\ ~dbRolledBack /\ killed_by_enemies = <<>>) =>
        /\ channel # <<>>
        /\ IsOldTable(channel[Len(channel)])
        /\ channel[Len(channel)].rows = 0

\* C7 as stated: the slot of a character whose fetch failed holds a captured
\* failure, so it differs from the slot of a character without deaths.
C7_FetchFailureCaptured ==
    AfterGather =>
        \A i \in DOMAIN tasks :
            tasks[i].fetch = "error" => GatherResults(tasks)[i].exc

\* C9: while any task exists there is one task per roster character (all are
\* handed to gather together), and the run is past gather only when every
\* one of them is done; the batch is empty until then.
C9_AllBeforeAggregation ==
    /\ DOMAIN tasks # {} => DOMAIN tasks = 1..Len(high_level_characters)
    /\ AfterGather => \A i \in DOMAIN tasks : tasks[i].st = "done"
    /\ (\E i \in DOMAIN tasks : tasks[i].st # "done") =>
           (runPc = "gather" /\ killed_by_enemies = <<>>)

\* the run has aggregated three tasks, one of which failed
C9_Witness ==
    /\ runPc = "aggregated"
    /\ Len(tasks) = 3
    /\ \E i \in DOMAIN tasks : tasks[i].res.exc
    /\ \E i \in DOMAIN tasks : tasks[i].res.entries # <<>>

\* C10: the loop is started by setup_hook, and no pass has begun, is due or
\* is running unless the bot has signalled readiness.
C10_NoPassBeforeReady ==
    /\ botState = "setup" => loopPc = "before_loop"
    /\ (passes > 0 \/ runPc # "idle" \/ loopPc \in {"due", "running", "sleeping"})
           => botState = "ready"

\* the first pass runs, after readiness
C10_Witness ==
    /\ passes = 1
    /\ loopPc = "running"
    /\ runPc = "gather"
    /\ botState = "ready"

----------------------------------------------------------------------------
(* Claims about the kills table in the channel (SpecPublish) *)

\* the live messages authored by the bot that bear the header
LiveReports == {k \in 1..Len(channel) : channel[k].author = "bot" /\ channel[k].marker = KillsHeader}

FirstPublishOver == pubCalls >= 2 \/ (pubCalls = 1 /\ pubPc \in {"done", "idle"})

AllReportsInWindow == \A k \in LiveReports : k > Len(channel) - HistoryLimit

----------------------------------------------------------------------------
(* Claims about get_character_data (SpecScrape) *)

NotFoundRemote(remote) == remote.net = "ok" /\ remote.rows = <<>>
NetworkFailure(remote) == remote.net = "request_exception"

\* C8 as stated: what a call returns on a network failure differs from what
\* a call returns for a name that does not resolve.
C8_FailureDistinctFromNotFound ==
    \A a, b \in 1..2 :
        (/\ scrResult[a] # Pending
         /\ scrResult[b] # Pending
         /\ NetworkFailure(scrRemote[a])
         /\ NotFoundRemote(scrRemote[b]))
        => scrResult[a] # scrResult[b]

----------------------------------------------------------------------------
(* The bot process under the scheduling of the event loop: a step that can
   be taken is eventually taken (ready callbacks run, requests end by their
   timeout, the interval elapses) *)

SpecLive == Init /\ [][Next]_vars /\ WF_vars(Next)

\* C11: the loop is never ended by a run, and every pass that runs, failed
\* or not, is followed by the next pass (as far as the bound on passes lets
\* the loop go).
C11_NextRunHappens ==
    /\ [](loopPc # "stopped")
    /\ \A n \in 1..(MaxPasses - 1) :
         (passes = n /\ loopPc = "running") ~> (passes = n + 1 /\ loopPc = "running")

\* a run has failed and been logged, and a later pass is running
C11_Witness ==
    /\ taskErrors >= 1
    /\ passes = 2
    /\ loopPc = "running"
    /\ runPc = "gather"

\* C12: the first pass starts with no interval waited, and the loop waits
\* for an interval only after a pass: the passes started are one more than
\* the intervals waited while a pass runs or the loop sleeps, and as many
\* when a pass is due.
C12_OneImmediatePass ==
    /\ loopPc \in {"unstarted", "before_loop"} => (passes = 0 /\ intervals = 0)
    /\ loopPc \in {"running", "sleeping"} => passes = intervals + 1
    /\ loopPc = "due" => passes = intervals

\* the loop waits for its first interval after exactly one pass
C12_Witness ==
    /\ botState = "ready"
    /\ loopPc = "sleeping"
    /\ passes = 1
    /\ intervals = 0

\* C13 as stated: while a per-character fetch is awaited or the report is
\* being sent to the channel, the session of the run is not open.
C13_NoSessionAcrossSuspension ==
    (\/ \E i \in DOMAIN tasks : tasks[i].st = "fetching"
     \/ pubPc \in {"start", "delete", "scan_failed", "send"})
        => dbSession # "open"

----------------------------------------------------------------------------
(* The handlers that write to the store, one database statement per step:
   the bot commands, the API handlers and PlayerScraperTask._process_player *)

MaxOps == 2           \* handlers started in one behaviour
MaxReady == 1         \* times the gateway reports READY

\* the names users and the online list pass to the handlers
OpNames == {NameEvilBob, NameEvilAlice}

\* what get_character_data answers inside add_by_name and
\* change_character_name: nothing, a record of the page, or a record with a
\* key that is no column of Character (comment, account_status)
ScrapeOutcomes == {"none", "found", "extra_keys"}

\* the level the page and the online list give
ScrapedLevel == 26

\* db.query(Character).filter(Character.name == name).first() is not None
ExistsByName(chars, name) == \E i \in DOMAIN chars : chars[i].name = name

\* the id of db.query(Character).filter(Character.name == name).first(),
\* 0 for None
GetByName(chars, name) ==
    IF ExistsByName(chars, name)
    THEN chars[CHOOSE i \in DOMAIN chars : chars[i].name = name].id
    ELSE 0

\* db.query(Character).filter(Character.id == character_id).first() is not None
GetById(chars, id) == \E i \in DOMAIN chars : chars[i].id = id

\* get_by_character_id(character_id) is not None
IsEnemy(enemies, cid) == \E en \in enemies : en.character_id = cid

\* a characters table with no constraint on name
UniqueNameOff(chars, id, name) == TRUE

\* Column(String, unique=True): the commit is accepted when no other row has
\* the name
UniqueName(chars, id, name) ==
    ~\E i \in DOMAIN chars : chars[i].name = name /\ chars[i].id # id

\* ForeignKey("characters.id"): the insert is accepted when the row exists
ForeignKey(chars, cid) == GetById(chars, cid)

\* db.delete(character) with the backref relationship of enemy_character.py:17
\* (no cascade, no passive_deletes): the flush sets character_id of the
\* character's enemy rows to NULL, which nullable=False refuses
DeleteNullsChild(enemies, id) == IsEnemy(enemies, id)

\* the attributes Client.__init__ and setup_hook set on the bot
ClientAttributes == {"allowed_channel_id", "death_checker"}

\* the rows send_enemy_table reads from the API
RosterIds(enemies) == {en.character_id : en \in enemies}

\* a variant of the session that stays open
DbStaysOpen(session) == session

\* db.close()
DbClose(session) == "closed"

Say(r, m) == [r EXCEPT !.msgs = Append(@, m)]

Done(r, out) == [r EXCEPT !.pc = "done", !.out = out]

\* the handlers "except ValueError" and "except Exception" of a bot command
BotHandler(exc) == IF exc = "ValueError" THEN "error" ELSE "unexpected_error"

BotFails(r, exc) == Done(Say(r, BotHandler(exc)), exc)

BotOps == {"add_character", "delete_character", "add_enemy", "remove_enemy", "change_name"}
ApiOps == {"add_character", "add_enemy", "update_character", "delete_character"}

\* interaction.user: guild_permissions.administrator and the names of the roles
Users ==
    [admin |-> [administrator |-> TRUE, roles |-> {}],
     moderator |-> [administrator |-> FALSE, roles |-> {<<"M", "o", "d", "e", "r", "a", "t", "o", "r">>}],
     member |-> [administrator |-> FALSE, roles |-> {<<"M", "e", "m", "b", "e", "r">>}]]

\* the test of the wrapper of is_admin_or_moderator, decorators.py:28-36
IsAdminOrModerator(user) ==
    \/ user.administrator
    \/ \E role \in user.roles :
          LowerText(role) = <<"m", "o", "d", "e", "r", "a", "t", "o", "r">>

\* the commands defined under @is_admin_or_moderator()
Decorated == {"delete_character", "remove_enemy"}

\* whether the body of the command runs for the user
Admits(op, user) == op \in Decorated => IsAdminOrModerator(user)

\* a bot command starts: the wrapper of the decorator where there is one
\* (denied: a message and no call of the command), then defer and
\* db = SessionLocal()
BotCommand ==
    /\ proc["bot"].pc \in {"idle", "returned", "denied"}
    /\ opsStarted < MaxOps
    /\ \E op \in BotOps, name \in OpNames, new \in OpNames, u \in DOMAIN Users :
         proc' = [proc EXCEPT !["bot"] =
                     IF Admits(op, Users[u])
                     THEN [IdleProc EXCEPT !.pc = "exists", !.op = op, !.name = name,
                                      !.new_name = IF op = "change_name" THEN new ELSE <<>>,
                                      !.session = "open", !.user = u]
                     ELSE [IdleProc EXCEPT !.pc = "denied", !.op = op, !.name = name,
                                      !.msgs = <<"no_permission">>, !.user = u]]
    /\ opsStarted' = opsStarted + 1
    /\ UNCHANGED <<storeVars, rosterReport, readyEvents>>

\* a request reaches an API handler: Depends(get_db) opens the session
ApiRequest ==
    /\ proc["api"].pc \in {"idle", "returned"}
    /\ opsStarted < MaxOps
    /\ \E op \in ApiOps, name \in OpNames, cid \in 1..2 :
         proc' = [proc EXCEPT !["api"] =
                     [IdleProc EXCEPT !.pc = IF op = "add_character" THEN "exists" ELSE "get_by_id",
                                      !.op = op,
                                      !.name = IF op \in {"add_character", "update_character"}
                                               THEN name ELSE <<>>,
                                      !.cid = IF op = "add_character" THEN 0 ELSE cid,
                                      !.session = "open"]]
    /\ opsStarted' = opsStarted + 1
    /\ UNCHANGED <<storeVars, rosterReport, readyEvents>>

\* scrape_and_store_online_players: one player of the online list, inside
\* "with self.get_db_session() as db"
RefreshPlayer ==
    /\ proc["refresh"].pc \in {"idle", "returned"}
    /\ opsStarted < MaxOps
    /\ \E name \in OpNames :
         proc' = [proc EXCEPT !["refresh"] =
                     [IdleProc EXCEPT !.pc = "exists", !.op = "process_player",
                                      !.name = name, !.level = ScrapedLevel,
                                      !.session = "open"]]
    /\ opsStarted' = opsStarted + 1
    /\ UNCHANGED <<storeVars, rosterReport, readyEvents>>

\* repository.exists_by_name and the branch each handler takes on it
Exists(p) ==
    /\ proc[p].pc = "exists"
    /\ LET r == proc[p]
           e == ExistsByName(storeChars, r.name)
       IN  proc' = [proc EXCEPT ![p] =
                CASE r.op = "add_character" /\ p = "bot" ->
                       IF e THEN Done(Say(r, "already_tracked"), "none")
                       ELSE [r EXCEPT !.pc = "add_by_name"]
                  [] r.op = "add_character" /\ p = "api" ->
                       IF e THEN Done(r, "400") ELSE [r EXCEPT !.pc = "add_by_name"]
                  [] r.op \in {"add_enemy", "process_player"} ->
                       IF e THEN [r EXCEPT !.pc = "get_by_name"]
                       ELSE [r EXCEPT !.pc = "add_by_name"]
                  [] r.op = "delete_character" ->
                       IF e THEN [r EXCEPT !.pc = "delete_by_name"]
                       ELSE Done(Say(r, "not_tracked"), "none")
                  [] r.op = "remove_enemy" ->
                       IF e THEN [r EXCEPT !.pc = "get_by_name"]
                       ELSE Done(Say(r, "not_tracked"), "none")
                  [] r.op = "change_name" ->
                       IF e THEN [r EXCEPT !.pc = "change_name"]
                       ELSE Done(Say(r, "not_tracked"), "none")]
    /\ UNCHANGED <<storeVars, opsStarted, rosterReport, readyEvents>>

\* CharacterRepository.add_by_name: the scrape, then Character(**data), which
\* raises TypeError on a key that is no column, then add and commit; the
\* stored name is the one of the page
AddByName(p) ==
    /\ proc[p].pc = "add_by_name"
    /\ \E scraped \in ScrapeOutcomes :
         LET r == proc[p]
             exc == IF scraped = "none" THEN "ValueError"
                    ELSE IF scraped = "extra_keys" THEN "TypeError"
                    ELSE IF ~UniqueName(storeChars, nextCharId, r.name) THEN "IntegrityError"
                    ELSE "none"
             rb == [r EXCEPT !.rolledBack = (exc = "IntegrityError")]
         IN  /\ storeChars' = IF exc = "none"
                              THEN Append(storeChars, Char(nextCharId, r.name, ScrapedLevel))
                              ELSE storeChars
             /\ nextCharId' = IF exc = "none" THEN nextCharId + 1 ELSE nextCharId
             /\ proc' = [proc EXCEPT ![p] =
                  CASE p = "api" -> Done(rb, IF exc = "none" THEN "201" ELSE "404")
                    [] p = "refresh" ->
                         IF exc = "none" THEN Done(rb, exc) ELSE Done(Say(rb, "logged"), exc)
                    [] p = "bot" /\ r.op = "add_character" ->
                         IF exc = "none" THEN Done(Say(rb, "success"), "none")
                         ELSE BotFails(rb, exc)
                    [] p = "bot" /\ r.op = "add_enemy" ->
                         IF exc = "none"
                         THEN [Say(rb, "added_automatically") EXCEPT !.pc = "get_by_name"]
                         ELSE IF exc = "ValueError"
                         THEN Done(Say(rb, "not_on_server"), exc)
                         ELSE BotFails(rb, exc)]
    /\ UNCHANGED <<storeEnemies, nextEnemyId, opsStarted, rosterReport, readyEvents>>

\* character = repository.get_by_name(name); character.id raises
\* AttributeError when the row is gone
GetByNameStep(p) ==
    /\ proc[p].pc = "get_by_name"
    /\ LET r == proc[p]
           id == GetByName(storeChars, r.name)
       IN  proc' = [proc EXCEPT ![p] =
                IF id = 0
                THEN IF p = "bot" THEN BotFails(r, "AttributeError")
                     ELSE Done(Say(r, "logged"), "AttributeError")
                ELSE [r EXCEPT !.cid = id,
                               !.pc = IF p = "bot" THEN "is_enemy" ELSE "update_level"]]
    /\ UNCHANGED <<storeVars, opsStarted, rosterReport, readyEvents>>

\* a variant that writes the level of the online list whatever the stored one
LevelDiffersAlways(stored, online) == TRUE

\* player_scraper.py:42, character.level != player["level"]
LevelDiffers(stored, online) == stored # online

\* _process_player lines 41-46: update_character_by_id with the level of the
\* online list when it differs from the stored one
UpdateLevel ==
    /\ proc["refresh"].pc = "update_level"
    /\ LET r == proc["refresh"]
       IN  /\ storeChars' = [i \in DOMAIN storeChars |->
                                IF /\ storeChars[i].id = r.cid
                                   /\ LevelDiffers(storeChars[i].level, r.level)
                                THEN [storeChars[i] EXCEPT !.level = r.level]
                                ELSE storeChars[i]]
           /\ proc' = [proc EXCEPT !["refresh"] = Done(r, "none")]
    /\ UNCHANGED <<storeEnemies, nextCharId, nextEnemyId, opsStarted, rosterReport, readyEvents>>

\* the API handlers' get_by_id and the 404 they answer
GetByIdStep ==
    /\ proc["api"].pc = "get_by_id"
    /\ LET r == proc["api"]
       IN  proc' = [proc EXCEPT !["api"] =
                IF ~GetById(storeChars, r.cid) THEN Done(r, "404")
                ELSE [r EXCEPT !.pc = CASE r.op = "add_enemy" -> "is_enemy"
                                        [] r.op = "update_character" -> "update"
                                        [] r.op = "delete_character" -> "delete_by_id"]]
    /\ UNCHANGED <<storeVars, opsStarted, rosterReport, readyEvents>>

\* the handler's own is_enemy test
IsEnemyStep(p) ==
    /\ proc[p].pc = "is_enemy"
    /\ LET r == proc[p]
           ie == IsEnemy(storeEnemies, r.cid)
       IN  proc' = [proc EXCEPT ![p] =
                CASE r.op = "add_enemy" /\ p = "bot" ->
                       IF ie THEN Done(Say(r, "already_enemy"), "none")
                       ELSE [r EXCEPT !.pc = "repo_get"]
                  [] r.op = "add_enemy" /\ p = "api" ->
                       IF ie THEN Done(r, "400") ELSE [r EXCEPT !.pc = "repo_get"]
                  [] r.op = "remove_enemy" ->
                       IF ie THEN [r EXCEPT !.pc = "repo_remove"]
                       ELSE Done(Say(r, "not_enemy"), "none")]
    /\ UNCHANGED <<storeVars, opsStarted, rosterReport, readyEvents>>

\* what a handler does with an exception of EnemyCharacterRepository.add_enemy
AddEnemyFails(p, r, exc) == IF p = "bot" THEN BotFails(r, exc) ELSE Done(r, "500")

\* EnemyCharacterRepository.add_enemy lines 82-85
RepoGet(p) ==
    /\ proc[p].pc = "repo_get"
    /\ LET r == proc[p]
       IN  proc' = [proc EXCEPT ![p] =
                IF GetById(storeChars, r.cid) THEN [r EXCEPT !.pc = "repo_is_enemy"]
                ELSE AddEnemyFails(p, r, "ValueError")]
    /\ UNCHANGED <<storeVars, opsStarted, rosterReport, readyEvents>>

\* EnemyCharacterRepository.add_enemy lines 88-90
RepoIsEnemy(p) ==
    /\ proc[p].pc = "repo_is_enemy"
    /\ LET r == proc[p]
       IN  proc' = [proc EXCEPT ![p] =
                IF IsEnemy(storeEnemies, r.cid) THEN AddEnemyFails(p, r, "ValueError")
                ELSE [r EXCEPT !.pc = "insert_enemy"]]
    /\ UNCHANGED <<storeVars, opsStarted, rosterReport, readyEvents>>

\* EnemyCharacterRepository.add_enemy lines 93-109 and the handler's answer;
\* the bot command ends here, with no call that republishes the roster table
InsertEnemy(p) ==
    /\ proc[p].pc = "insert_enemy"
    /\ LET r == proc[p]
       IN  IF ForeignKey(storeChars, r.cid)
           THEN /\ storeEnemies' = storeEnemies \cup {Enemy(nextEnemyId, r.cid)}
                /\ nextEnemyId' = nextEnemyId + 1
                /\ proc' = [proc EXCEPT ![p] =
                     IF p = "bot"
                     THEN Done(Say([r EXCEPT !.changed = TRUE], "success"), "none")
                     ELSE Done([r EXCEPT !.changed = TRUE], "201")]
           ELSE /\ UNCHANGED <<storeEnemies, nextEnemyId>>
                /\ proc' = [proc EXCEPT ![p] =
                     AddEnemyFails(p, [r EXCEPT !.rolledBack = TRUE], "IntegrityError")]
    /\ UNCHANGED <<storeChars, nextCharId, opsStarted, rosterReport, readyEvents>>

\* EnemyCharacterRepository.remove_enemy, then the success message of
\* remove_character_enemy.py:51-54
RepoRemove ==
    /\ proc["bot"].pc = "repo_remove"
    /\ LET r == proc["bot"]
           rows == {en \in storeEnemies : en.character_id = r.cid}
       IN  IF rows = {}
           THEN /\ storeEnemies' = storeEnemies
                /\ proc' = [proc EXCEPT !["bot"] =
                               [Say(r, "success") EXCEPT !.pc = "refresh_table"]]
           ELSE \E en \in rows :
                /\ storeEnemies' = storeEnemies \ {en}
                /\ proc' = [proc EXCEPT !["bot"] =
                               [Say([r EXCEPT !.changed = TRUE], "success")
                                   EXCEPT !.pc = "refresh_table"]]
    /\ UNCHANGED <<storeChars, nextCharId, nextEnemyId, opsStarted, rosterReport, readyEvents>>

\* remove_character_enemy.py:56-58: the attribute lookup on the client
RefreshTable ==
    /\ proc["bot"].pc = "refresh_table"
    /\ LET r == proc["bot"]
       IN  IF "enemy_table_manager" \in ClientAttributes
           THEN /\ rosterReport' = RosterIds(storeEnemies)
                /\ proc' = [proc EXCEPT !["bot"] =
                               Done([r EXCEPT !.republished = TRUE], "none")]
           ELSE /\ rosterReport' = rosterReport
                /\ proc' = [proc EXCEPT !["bot"] = BotFails(r, "AttributeError")]
    /\ UNCHANGED <<storeVars, opsStarted, readyEvents>>

\* CharacterRepository.delete_character_by_name and the command's answer
DeleteByName ==
    /\ proc["bot"].pc = "delete_by_name"
    /\ LET r == proc["bot"]
           id == GetByName(storeChars, r.name)
       IN  IF id = 0
           THEN /\ storeChars' = storeChars
                /\ proc' = [proc EXCEPT !["bot"] = BotFails(r, "ValueError")]
           ELSE IF DeleteNullsChild(storeEnemies, id)
           THEN /\ storeChars' = storeChars
                /\ proc' = [proc EXCEPT !["bot"] =
                               BotFails([r EXCEPT !.rolledBack = TRUE, !.cid = id],
                                        "IntegrityError")]
           ELSE /\ storeChars' = SelectSeq(storeChars, LAMBDA c : c.id # id)
                /\ proc' = [proc EXCEPT !["bot"] =
                               Done(Say([r EXCEPT !.cid = id], "success"), "none")]
    /\ UNCHANGED <<storeEnemies, nextCharId, nextEnemyId, opsStarted, rosterReport, readyEvents>>

\* CharacterRepository.delete_character_by_id under api/character.py:115
DeleteById ==
    /\ proc["api"].pc = "delete_by_id"
    /\ LET r == proc["api"]
       IN  IF ~GetById(storeChars, r.cid)
           THEN /\ storeChars' = storeChars
                /\ proc' = [proc EXCEPT !["api"] = Done(r, "500")]
           ELSE IF DeleteNullsChild(storeEnemies, r.cid)
           THEN /\ storeChars' = storeChars
                /\ proc' = [proc EXCEPT !["api"] = Done(r, "500")]
           ELSE /\ storeChars' = SelectSeq(storeChars, LAMBDA c : c.id # r.cid)
                /\ proc' = [proc EXCEPT !["api"] = Done(r, "204")]
    /\ UNCHANGED <<storeEnemies, nextCharId, nextEnemyId, opsStarted, rosterReport, readyEvents>>

\* CharacterRepository.change_character_name lines 244-258: the row of the
\* old name, then the scrape of the new name
ChangeName ==
    /\ proc["bot"].pc = "change_name"
    /\ \E scraped \in ScrapeOutcomes :
         LET r == proc["bot"]
             id == GetByName(storeChars, r.name)
         IN  proc' = [proc EXCEPT !["bot"] =
                  IF id = 0 \/ scraped = "none" THEN BotFails(r, "ValueError")
                  ELSE [r EXCEPT !.cid = id, !.pc = "change_commit"]]
    /\ UNCHANGED <<storeVars, opsStarted, rosterReport, readyEvents>>

\* the commit of a new name for row id: refused when the row is gone
\* (StaleDataError) or the name is taken (IntegrityError)
CommitName(chars, id, name) ==
    IF ~GetById(chars, id) THEN "StaleDataError"
    ELSE IF ~UniqueName(chars, id, name) THEN "IntegrityError"
    ELSE "none"

Rename(chars, id, name) ==
    [i \in DOMAIN chars |->
        IF chars[i].id = id THEN [chars[i] EXCEPT !.name = name] ELSE chars[i]]

\* CharacterRepository.change_character_name lines 260-266
ChangeCommit ==
    /\ proc["bot"].pc = "change_commit"
    /\ LET r == proc["bot"]
           exc == CommitName(storeChars, r.cid, r.new_name)
       IN  /\ storeChars' = IF exc = "none" THEN Rename(storeChars, r.cid, r.new_name)
                            ELSE storeChars
           /\ proc' = [proc EXCEPT !["bot"] =
                IF exc = "none" THEN Done(Say(r, "success"), "none")
                ELSE BotFails([r EXCEPT !.rolledBack = TRUE], exc)]
    /\ UNCHANGED <<storeEnemies, nextCharId, nextEnemyId, opsStarted, rosterReport, readyEvents>>

\* api/character.py:177-189 with CharacterRepository.update_character_by_id:
\* the new name is set and committed
ApiUpdate ==
    /\ proc["api"].pc = "update"
    /\ LET r == proc["api"]
           exc == CommitName(storeChars, r.cid, r.name)
       IN  IF ~GetById(storeChars, r.cid)
           THEN /\ storeChars' = storeChars
                /\ proc' = [proc EXCEPT !["api"] = Done(r, "none_returned")]
           ELSE /\ storeChars' = IF exc = "none" THEN Rename(storeChars, r.cid, r.name)
                                 ELSE storeChars
                /\ proc' = [proc EXCEPT !["api"] =
                     IF exc = "none" THEN Done(r, "200")
                     ELSE Done([r EXCEPT !.rolledBack = TRUE], "404")]
    /\ UNCHANGED <<storeEnemies, nextCharId, nextEnemyId, opsStarted, rosterReport, readyEvents>>

\* the handler returns: "finally: db.close()" of a bot command, the exit of
\* get_db_session, the end of Depends(get_db)
Return(p) ==
    /\ proc[p].pc = "done"
    /\ proc[p].rest = <<>>
    /\ proc' = [proc EXCEPT ![p].pc = "returned", ![p].session = DbClose(@)]
    /\ UNCHANGED <<storeVars, opsStarted, rosterReport, readyEvents>>

\* Client.on_ready: send_enemy_table replaces the roster table in the channel
OnReady ==
    /\ readyEvents < MaxReady
    /\ readyEvents' = readyEvents + 1
    /\ rosterReport' = RosterIds(storeEnemies)
    /\ UNCHANGED <<storeVars, proc, opsStarted>>

StoreOpsInit ==
    /\ MatchIdle
    /\ ScrapeIdle
    /\ ParseIdle
    /\ LockIdle
    /\ BotInit
    /\ RunInit
    /\ PubInit
    /\ storeChars = <<Char(1, NameEvilBob, 25)>>
    /\ storeEnemies \in {{}, {Enemy(1, 1)}}
    /\ nextCharId = 2
    /\ nextEnemyId = 2
    /\ proc = [p \in Procs |-> IdleProc]
    /\ opsStarted = 0
    /\ rosterReport = {}
    /\ readyEvents = 0

restVars == <<matchVars, botVars, runVars, pubVars, scrapeVars, parseVars, lockVars>>

StoreNext ==
    \/ BotCommand /\ UNCHANGED restVars
    \/ ApiRequest /\ UNCHANGED restVars
    \/ RefreshPlayer /\ UNCHANGED restVars
    \/ \E p \in Procs : Exists(p) /\ UNCHANGED restVars
    \/ \E p \in Procs : AddByName(p) /\ UNCHANGED restVars
    \/ \E p \in Procs : GetByNameStep(p) /\ UNCHANGED restVars
    \/ UpdateLevel /\ UNCHANGED restVars
    \/ GetByIdStep /\ UNCHANGED restVars
    \/ \E p \in Procs : IsEnemyStep(p) /\ UNCHANGED restVars
    \/ \E p \in Procs : RepoGet(p) /\ UNCHANGED restVars
    \/ \E p \in Procs : RepoIsEnemy(p) /\ UNCHANGED restVars
    \/ \E p \in Procs : InsertEnemy(p) /\ UNCHANGED restVars
    \/ RepoRemove /\ UNCHANGED restVars
    \/ RefreshTable /\ UNCHANGED restVars
    \/ DeleteByName /\ UNCHANGED restVars
    \/ DeleteById /\ UNCHANGED restVars
    \/ ChangeName /\ UNCHANGED restVars
    \/ ChangeCommit /\ UNCHANGED restVars
    \/ ApiUpdate /\ UNCHANGED restVars
    \/ \E p \in Procs : Return(p) /\ UNCHANGED restVars
    \/ OnReady /\ UNCHANGED restVars

SpecStore == StoreOpsInit /\ [][StoreNext]_vars

----------------------------------------------------------------------------
(* The sessions of the bot process: one call of
   check_character_deaths_by_enemies beside the bot commands and the roster
   refresh, on a store whose characters are all below the level threshold *)

SessionsNext ==
    \/ StartRun /\ UNCHANGED <<matchVars, scrapeVars, parseVars, lockVars, opVars, botVars, storeVars, pubVars>>
    \/ Resume /\ UNCHANGED <<matchVars, scrapeVars, parseVars, lockVars, opVars, botVars, storeVars, pubVars>>
    \/ Report /\ UNCHANGED <<matchVars, scrapeVars, parseVars, lockVars, opVars, botVars, storeVars>>
    \/ BotCommand /\ UNCHANGED restVars
    \/ RefreshPlayer /\ UNCHANGED restVars
    \/ \E p \in Procs : Exists(p) /\ UNCHANGED restVars
    \/ \E p \in Procs : AddByName(p) /\ UNCHANGED restVars
    \/ \E p \in Procs : GetByNameStep(p) /\ UNCHANGED restVars
    \/ UpdateLevel /\ UNCHANGED restVars
    \/ \E p \in Procs : IsEnemyStep(p) /\ UNCHANGED restVars
    \/ \E p \in Procs : RepoGet(p) /\ UNCHANGED restVars
    \/ \E p \in Procs : RepoIsEnemy(p) /\ UNCHANGED restVars
    \/ \E p \in Procs : InsertEnemy(p) /\ UNCHANGED restVars
    \/ RepoRemove /\ UNCHANGED restVars
    \/ RefreshTable /\ UNCHANGED restVars
    \/ DeleteByName /\ UNCHANGED restVars
    \/ ChangeName /\ UNCHANGED restVars
    \/ ChangeCommit /\ UNCHANGED restVars
    \/ \E p \in Procs : Return(p) /\ UNCHANGED restVars

SpecSessions == StoreOpsInit /\ [][SessionsNext]_vars

\* C14: a bot command or a roster refresh that has returned has closed its
\* session, whatever its outcome; a correlation run that has returned or
\* raised has closed its session, and a run that failed inside the session
\* has rolled it back.
C14_SessionsReleased ==
    /\ \A p \in Procs : proc[p].pc = "returned" => proc[p].session = "closed"
    /\ runPc \in {"returned", "raised"} => dbSession = "closed"
    /\ (runPc \in {"returned", "raised"} /\ (taskErrors > 0 \/ runExc # "none"))
          => dbRolledBack

\* a bot command has failed and returned, and the run has failed at a read
\* of the store and returned
C14_Witness ==
    /\ proc["bot"].pc = "returned"
    /\ proc["bot"].out = "IntegrityError"
    /\ proc["bot"].session = "closed"
    /\ proc["refresh"].pc = "returned"
    /\ runPc = "returned"
    /\ taskErrors = 1
    /\ dbSession = "closed"
    /\ dbRolledBack

----------------------------------------------------------------------------
(* Claims about the store *)

EnmitiesOf(cid) == {en \in storeEnemies : en.character_id = cid}

\* C15 as stated: whatever add-enemy handlers of the API and of the bot have
\* run and however their steps interleave, the store holds at most one
\* enemy row per tracked character.
C15_AtMostOneEnmity ==
    \A i \in DOMAIN storeChars : Cardinality(EnmitiesOf(storeChars[i].id)) <= 1

\* every enemy row references a row of the characters table
EnmityReferencesCharacter ==
    \A en \in storeEnemies : GetById(storeChars, en.character_id)

\* a step of delete_character_by_name or delete_character_by_id on a
\* character that exists and has an enemy row
DeletesCharacterWithEnmity(p, id) ==
    /\ proc[p].pc \in {"delete_by_name", "delete_by_id"}
    /\ proc'[p].pc = "done"
    /\ id = (IF p = "bot" THEN GetByName(storeChars, proc[p].name) ELSE proc[p].cid)
    /\ GetById(storeChars, id)
    /\ IsEnemy(storeEnemies, id)

\* C16 as stated: every enemy row references a tracked character, and the
\* delete of a tracked character that has an enemy row removes the character
\* and its enemy rows.
C16_DeleteCascades ==
    [][/\ EnmityReferencesCharacter'
       /\ \A p \in {"bot", "api"}, id \in 1..(MaxOps + 1) :
            DeletesCharacterWithEnmity(p, id)
               => (~GetById(storeChars', id) /\ ~IsEnemy(storeEnemies', id))]_vars

\* no two rows of the characters table have the same name
NamesUnique ==
    \A i, j \in DOMAIN storeChars :
        storeChars[i].name = storeChars[j].name => i = j

\* row id aside, some row has the name
NameTaken(id, name) ==
    \E i \in DOMAIN storeChars : storeChars[i].name = name /\ storeChars[i].id # id

\* p takes the step that commits a name some other row has: the insert of
\* add_by_name, or the update of change_character_name or of
\* update_character_by_id
CommitsTakenName(p) ==
    \/ /\ proc[p].pc = "add_by_name"
       /\ proc'[p].pc # "add_by_name"
       /\ NameTaken(0, proc[p].name)
    \/ /\ proc[p].pc = "change_commit"
       /\ proc'[p].pc = "done"
       /\ NameTaken(proc[p].cid, proc[p].new_name)
    \/ /\ proc[p].pc = "update"
       /\ proc'[p].pc = "done"
       /\ NameTaken(proc[p].cid, proc[p].name)

\* the handler has ended with an error
Failed(r) == r.pc = "done" /\ r.out \notin {"none", "200", "201", "204"}

\* C17: after every step of every handler of the API, the bot and the roster
\* refresh the names of the tracked characters are pairwise different, and a
\* step that commits a name another character has fails and leaves the
\* characters table as it was.
C17_NamesStayUnique ==
    [][/\ NamesUnique'
       /\ \A p \in Procs :
            CommitsTakenName(p) => (storeChars' = storeChars /\ Failed(proc'[p]))]_vars

\* a rename to a name another character has was refused and rolled back
C17_Witness ==
    /\ proc["bot"].op = "change_name"
    /\ proc["bot"].pc = "done"
    /\ proc["bot"].out = "IntegrityError"
    /\ proc["bot"].rolledBack
    /\ Len(storeChars) = 2
    /\ NamesUnique

----------------------------------------------------------------------------
(* The front ends of get_character_data *)

\* character_repository.py:110, "if not scraped_data": add_by_name, under the
\* bot's add commands and the API's add_character
AddTreatsAsNotFound(res) == res.none \/ res.data = EmptyDict

\* api/character.py:138, "if character_data is None": get_character_info
InfoTreatsAsNotFound(res) == res.none

\* the page was fetched and none of its rows has a label of fields_to_scrape
\* in a row of two cells
ZeroLabeledRows(remote) ==
    /\ remote.net = "ok"
    /\ \A i \in DOMAIN remote.rows :
         remote.rows[i].cols < 2 \/ remote.rows[i].key \notin KnownLabels

\* C18 as stated: a call on a page with zero labeled rows returns None, and
\* add_by_name and get_character_info both treat the name as not found.
C18_ZeroRowsNotFound ==
    \A k \in 1..2 :
        (scrResult[k] # Pending /\ ZeroLabeledRows(scrRemote[k]))
           => /\ scrResult[k] = ReturnsNone
              /\ AddTreatsAsNotFound(scrResult[k])
              /\ InfoTreatsAsNotFound(scrResult[k])

----------------------------------------------------------------------------
(* TibiantisScraper._parse_death_data on any table *)

Garbage == RawTime(0, "garbage")
RecentOtherZone == RawTime(Now0 - 60, "other")

DeathRowPool ==
    {DeathRow(2, t, k) : t \in {RecentCEST, RecentNoZone, RecentOtherZone, Garbage},
                         k \in {KilledByEvilBob, DiedOfLifeLoss}}
    \cup {DeathRow(1, RecentCEST, <<>>)}

DeathTables ==
    {[deathTable |-> has, rows |-> rows] :
        has \in BOOLEAN, rows \in SeqsUpTo(DeathRowPool, MaxDeaths)}

NotParsed == [done |-> FALSE, deaths |-> <<>>]

ParseInit ==
    /\ MatchIdle
    /\ ScrapeIdle
    /\ OpIdle
    /\ BotInit
    /\ RunInit
    /\ PubInit
    /\ StoreEmpty
    /\ LockIdle
    /\ dlTable \in DeathTables
    /\ dlResult = NotParsed

\* one call of _parse_death_data
ParseCall ==
    /\ ~dlResult.done
    /\ dlResult' = [done |-> TRUE, deaths |-> ParseDeathData(dlTable)]
    /\ UNCHANGED <<dlTable, matchVars, botVars, storeVars, runVars, pubVars, scrapeVars, lockVars, opVars>>

ParseNext == ParseCall

SpecParse == ParseInit /\ [][ParseNext]_vars

\* C19 as stated: the call on a "Latest Deaths" table returns as many entries
\* as the table has rows, the i-th with the killer text of the i-th row, and
\* with unknown time when the row's time text is no date.
C19_OneEntryPerRow ==
    (dlResult.done /\ dlTable.deathTable)
       => /\ Len(dlResult.deaths) = Len(dlTable.rows)
          /\ \A i \in DOMAIN dlTable.rows :
               /\ dlResult.deaths[i].killer = dlTable.rows[i].killer
               /\ dlTable.rows[i].time = Garbage => dlResult.deaths[i].time = NoTime

----------------------------------------------------------------------------
(* The roster report and the enemy commands *)

ErrorMessages == {"error", "unexpected_error", "not_on_server"}

HasMessage(r, ms) == \E i \in DOMAIN r.msgs : r.msgs[i] \in ms

\* C20 as stated: an add_enemy or remove_enemy command that has changed the
\* roster has republished the roster report by the time it ends, and a
\* remove_enemy command that has sent its success message has sent no error
\* message.
C20_RosterRepublished ==
    LET r == proc["bot"]
    IN  (r.pc \in {"done", "returned"} /\ r.op \in {"add_enemy", "remove_enemy"})
           => /\ r.changed => r.republished
              /\ (r.op = "remove_enemy" /\ HasMessage(r, {"success"}))
                    => ~HasMessage(r, ErrorMessages)

----------------------------------------------------------------------------
(* Who may change the store through the bot *)

\* C21 as stated: no step of an add_enemy command invoked by a user who is
\* neither administrator nor moderator changes the characters or the enemies
\* of the store.
C21_AddEnemyNeedsPrivilege ==
    [][(/\ proc'["bot"] # proc["bot"]
        /\ proc'["bot"].op = "add_enemy"
        /\ ~IsAdminOrModerator(Users[proc'["bot"].user]))
          => (storeChars' = storeChars /\ storeEnemies' = storeEnemies)]_vars

----------------------------------------------------------------------------
(* The commits that fail *)

\* p takes a step whose commit the database refuses
CommitFails(p) ==
    \/ /\ proc[p].pc = "add_by_name"
       /\ NameTaken(0, proc[p].name)
       /\ proc'[p].out = "IntegrityError"
    \/ /\ proc[p].pc = "insert_enemy"
       /\ proc'[p].pc = "done"
       /\ ~ForeignKey(storeChars, proc[p].cid)
    \/ /\ proc[p].pc = "delete_by_name"
       /\ proc'[p].pc = "done"
       /\ DeleteNullsChild(storeEnemies, GetByName(storeChars, proc[p].name))
    \/ /\ proc[p].pc = "delete_by_id"
       /\ proc'[p].pc = "done"
       /\ GetById(storeChars, proc[p].cid)
       /\ DeleteNullsChild(storeEnemies, proc[p].cid)
    \/ /\ proc[p].pc = "change_commit"
       /\ proc'[p].pc = "done"
       /\ CommitName(storeChars, proc[p].cid, proc[p].new_name) # "none"
    \/ /\ proc[p].pc = "update"
       /\ proc'[p].pc = "done"
       /\ GetById(storeChars, proc[p].cid)
       /\ CommitName(storeChars, proc[p].cid, proc[p].name) # "none"

\* C22 as stated: a write whose commit fails has rolled its session back,
\* has left the rows of the store as they were, and has ended in an error
\* at its caller.
C22_FailedCommitRolledBack ==
    [][\A p \in Procs :
         CommitFails(p)
            => /\ proc'[p].rolledBack
               /\ storeChars' = storeChars
               /\ storeEnemies' = storeEnemies
               /\ Failed(proc'[p])]_vars

----------------------------------------------------------------------------
(* PlayerScraperTask.scrape_and_store_online_players: the loop over the
   online list *)

MaxOnline == 2        \* players of one online list

Player(name, level) == [name |-> name, level |-> level]

\* what get_online_players returns
OnlineLists ==
    SeqsUpTo({Player(n, l) : n \in OpNames, l \in {25, ScrapedLevel}}, MaxOnline)

\* _process_player of the player at the head of the list
ProcessPlayer(r, players) ==
    [r EXCEPT !.pc = "exists", !.op = "process_player", !.name = Head(players).name,
              !.level = Head(players).level, !.cid = 0, !.out = "none",
              !.rest = Tail(players)]

\* lines 59-65: get_online_players, then the session and the first player
ScrapeAndStore ==
    /\ proc["refresh"].pc \in {"idle", "returned"}
    /\ opsStarted < MaxOps
    /\ \E players \in OnlineLists :
         proc' = [proc EXCEPT !["refresh"] =
                     IF players = <<>>
                     THEN [IdleProc EXCEPT !.pc = "done", !.op = "process_player",
                                           !.session = "open"]
                     ELSE ProcessPlayer([IdleProc EXCEPT !.session = "open"], players)]
    /\ opsStarted' = opsStarted + 1
    /\ UNCHANGED <<storeVars, rosterReport, readyEvents>>

\* a _process_player with no handler
CatchesNothing(exc) == FALSE

\* player_scraper.py:47, "except Exception" around the body of _process_player
ProcessPlayerCatches(exc) == ExceptException(exc)

\* the loop of line 64 goes on to the next player; an exception that
\* _process_player lets through leaves the with block instead (rollback,
\* close) and ends the task in the handler of line 69
NextPlayer ==
    /\ proc["refresh"].pc = "done"
    /\ proc["refresh"].rest # <<>>
    /\ LET r == proc["refresh"]
       IN  proc' = [proc EXCEPT !["refresh"] =
                IF r.out = "none" \/ ProcessPlayerCatches(r.out)
                THEN ProcessPlayer(r, r.rest)
                ELSE [r EXCEPT !.pc = "returned", !.rolledBack = TRUE,
                               !.session = DbClose(@)]]
    /\ UNCHANGED <<storeVars, opsStarted, rosterReport, readyEvents>>

RefreshNext ==
    \/ ScrapeAndStore /\ UNCHANGED restVars
    \/ Exists("refresh") /\ UNCHANGED restVars
    \/ AddByName("refresh") /\ UNCHANGED restVars
    \/ GetByNameStep("refresh") /\ UNCHANGED restVars
    \/ UpdateLevel /\ UNCHANGED restVars
    \/ NextPlayer /\ UNCHANGED restVars
    \/ Return("refresh") /\ UNCHANGED restVars

SpecRefresh == StoreOpsInit /\ [][RefreshNext]_vars

\* the rows of the characters table other than those named name
OtherRows(chars, name) == SelectSeq(chars, LAMBDA c : c.name # name)

\* row i of the table is as it was but for its level
SameButLevel(i) ==
    /\ storeChars'[i].id = storeChars[i].id
    /\ storeChars'[i].name = storeChars[i].name

----------------------------------------------------------------------------
(* Claims about the notification channel *)

\* C24: while _send_enemy_kills_table runs, whatever fails in it (no bot or
\* channel, the history, a delete, the send), the matches of the run stay
\* what the aggregation computed, and the run returns exactly that list.
C24_NotificationFailureKeepsMatches ==
    [][runPc = "publish" =>
          /\ killed_by_enemies' = killed_by_enemies
          /\ killed_by_enemies = Aggregate(GatherResults(tasks), 1, <<>>)
          /\ runPc' = "returned" => (returned' = killed_by_enemies /\ returned' # <<>>)]_vars

\* the first pass has returned its matches although its publish logged a
\* failure and nothing reached the channel
C24_Witness ==
    /\ runPc = "returned"
    /\ passes = 1
    /\ pubErrorLogged
    /\ channel = <<>>
    /\ returned # <<>>
    /\ returned = Aggregate(GatherResults(tasks), 1, <<>>)

----------------------------------------------------------------------------
(* The loop of _process_character_deaths on killer texts built from names *)

NameToby == <<"T", "o", "b", "y">>
NameMrOrc == <<"M", "r", ".", " ", "O", "r", "c">>
NameRockAndRoll ==
    <<"R", "o", "c", "k", " ", "a", "n", "d", " ", "R", "o", "l", "l">>

AttributionNames == {NameEvilBob, NameToby, NameMrOrc, NameRockAndRoll}

\* the text of the death log for a kill by one player: "Killed by E."
KilledBy(name) == <<"K", "i", "l", "l", "e", "d", " ">> \o By \o <<" ">> \o name \o Dot

AttributionPool ==
    [time : {Aware(Now0 - 60), Aware(Now0 - Window - 1)},
     killer : {KilledBy(n) : n \in AttributionNames} \cup {DiedOfLifeLoss}]

AttributionInit ==
    /\ PipelineIdle
    /\ pName = NameAlice
    /\ pDeaths \in SeqsUpTo(AttributionPool, MaxDeaths)
    /\ pEnemies \in {EnemyNames(r) : r \in {{n} : n \in AttributionNames} \cup {AttributionNames}}
    /\ pNow = Now0
    /\ pIdx = 1
    /\ pPc = "filter"
    /\ killed_entries = <<>>

SpecAttribution == AttributionInit /\ [][MatchNext]_vars

\* what follows the first occurrence of pat in s
AfterFirst(s, pat) == Join(Tail(Split(s, pat)), pat)

RECURSIVE RStripPunctuation(_)
RStripPunctuation(s) ==
    IF s # <<>> /\ (IsSpace(s[Len(s)]) \/ s[Len(s)] = ".")
    THEN RStripPunctuation(SubSeq(s, 1, Len(s) - 1)) ELSE s

\* the attribution as the claim states it: after the first "by", the end
\* stripped of punctuation and whitespace, lower-cased
StatedAttribution(killer) ==
    LowerText(RStripPunctuation(LStrip(AfterFirst(killer, By))))

\* C25: when the loop compares a death that has the delimiter, the string it
\* splits into killer names is what follows the first "by" of the raw text,
\* stripped at its end only and lower-cased.
C25_AttributionAfterFirstBy ==
    (pPc = "match" /\ HasDelimiter(pDeaths[pIdx].killer)) =>
        KillerString(pDeaths[pIdx].killer) = StatedAttribution(pDeaths[pIdx].killer)

\* C30: when the call has returned, every death inside the window whose text
\* is "Killed by E." for a name E of the enemy roster has its entry in the
\* list returned.
C30_EveryRosterNameMatches ==
    pPc = "returned" =>
        \A i \in 1..Len(pDeaths) :
            (/\ WindowCheck(pDeaths[i].time, pNow) = "keep"
             /\ \E n \in AttributionNames :
                    LowerText(n) \in pEnemies /\ pDeaths[i].killer = KilledBy(n))
            => Occurs(KillEntry(pName, pDeaths[i]), killed_entries)

----------------------------------------------------------------------------
(* send_enemy_table of bot/enemy_table_manager.py, and both publishers on one
   channel *)

\* message.author.id == bot.user.id and the header of the enemy list is in
\* message.content
IsOldRoster(m) == m.author = "bot" /\ m.marker = RosterHeader

RosterTargets(ch) ==
    SelectSeq(Newest(Len(ch), HistoryLimit), LAMBDA k : IsOldRoster(ch[k]))

\* the message built from enemy_characters
RosterTable(enemy_characters) == Message("bot", RosterHeader, Len(enemy_characters))

\* what the two GETs of lines 102-106 and the join of lines 109-125 give
RosterAnswers == {<<>>, <<Char(1, NameEvilBob, 25)>>}

\* await send_enemy_table()
CallSendEnemyTable ==
    /\ pubPc = "idle"
    /\ pubCalls < MaxPublishes
    /\ pubBatch' = <<>>
    /\ pubPc' = "roster_start"
    /\ pubCalls' = pubCalls + 1
    /\ UNCHANGED <<pending, channel, pubErrorLogged, otherPosts>>

\* lines 76-92: get the bot and the channel, then read the history
RosterScan ==
    /\ pubPc = "roster_start"
    /\ \E found \in {"ok", "no_channel", "history_fails"} :
         IF found = "no_channel"
         THEN /\ pubPc' = "done"
              /\ pending' = <<>>
              /\ pubErrorLogged' = TRUE
         ELSE IF found = "history_fails"
         THEN /\ pubPc' = "roster_failed"
              /\ pending' = <<>>
              /\ pubErrorLogged' = pubErrorLogged
         ELSE /\ pending' = RosterTargets(channel)
              /\ pubPc' = IF RosterTargets(channel) = <<>> THEN "roster_fetch" ELSE "roster_delete"
              /\ pubErrorLogged' = pubErrorLogged
    /\ UNCHANGED <<pubBatch, channel, pubCalls, otherPosts>>

\* lines 92-96: delete the next old enemy list; a failure leaves the loop
RosterDelete ==
    /\ pubPc = "roster_delete"
    /\ \E ok \in BOOLEAN :
         IF ok
         THEN /\ channel' = RemoveAt(channel, Head(pending))
              /\ pending' = Tail(pending)
              /\ pubPc' = IF Tail(pending) = <<>> THEN "roster_fetch" ELSE "roster_delete"
         ELSE /\ channel' = channel
              /\ pending' = <<>>
              /\ pubPc' = "roster_failed"
    /\ UNCHANGED <<pubBatch, pubErrorLogged, pubCalls, otherPosts>>

\* lines 97-99: the handler around the scan logs and goes on
RosterScanFailed ==
    /\ pubPc = "roster_failed"
    /\ pubPc' = "roster_fetch"
    /\ pubErrorLogged' = TRUE
    /\ UNCHANGED <<pubBatch, pending, channel, pubCalls, otherPosts>>

\* lines 101-128: ask the API for the characters and the enemies; a failure
\* goes to the handler of line 156
RosterFetch ==
    /\ pubPc = "roster_fetch"
    /\ \/ /\ \E rows \in RosterAnswers : pubBatch' = rows
          /\ pubPc' = "roster_send"
          /\ pubErrorLogged' = pubErrorLogged
       \/ /\ pubBatch' = pubBatch
          /\ pubPc' = "done"
          /\ pubErrorLogged' = TRUE
    /\ UNCHANGED <<pending, channel, pubCalls, otherPosts>>

\* lines 130-157: build the message and send it
RosterSend ==
    /\ pubPc = "roster_send"
    /\ \E ok \in BOOLEAN :
         /\ channel' = IF ok THEN Append(channel, RosterTable(pubBatch)) ELSE channel
         /\ pubErrorLogged' = (pubErrorLogged \/ ~ok)
    /\ pubPc' = "done"
    /\ UNCHANGED <<pubBatch, pending, pubCalls, otherPosts>>

\* the channel when the bot starts: empty, or holding the two tables of an
\* earlier run
PublishersInit ==
    /\ MatchIdle
    /\ ScrapeIdle
    /\ ParseIdle
    /\ LockIdle
    /\ OpIdle
    /\ BotInit
    /\ RunInit
    /\ StoreEmpty
    /\ pubPc = "idle"
    /\ pubBatch = <<>>
    /\ pending = <<>>
    /\ channel \in {<<>>, <<KillsTable(<<>>), RosterTable(<<>>)>>}
    /\ pubErrorLogged = FALSE
    /\ pubCalls = 0
    /\ otherPosts = 0

notPubVars == <<matchVars, scrapeVars, parseVars, lockVars, opVars, botVars, storeVars, runVars>>

PublishersNext ==
    \/ CallPublish /\ UNCHANGED notPubVars
    \/ PubScan /\ UNCHANGED notPubVars
    \/ PubDelete /\ UNCHANGED notPubVars
    \/ PubScanFailed /\ UNCHANGED notPubVars
    \/ PubSend /\ UNCHANGED notPubVars
    \/ CallSendEnemyTable /\ UNCHANGED notPubVars
    \/ RosterScan /\ UNCHANGED notPubVars
    \/ RosterDelete /\ UNCHANGED notPubVars
    \/ RosterScanFailed /\ UNCHANGED notPubVars
    \/ RosterFetch /\ UNCHANGED notPubVars
    \/ RosterSend /\ UNCHANGED notPubVars
    \/ PublishReturn /\ UNCHANGED notPubVars
    \/ OtherPost /\ UNCHANGED notPubVars

SpecPublishers == PublishersInit /\ [][PublishersNext]_vars

LiveRosters == {k \in 1..Len(channel) : IsOldRoster(channel[k])}

\* C26: in both publishers the step after a failed scan or delete logs the
\* failure and goes on towards the send, with the channel as it was; and a
\* send adds the new table as one message at the end of the channel or, when
\* the send itself fails, adds nothing.
C26_ScanFailureStillSends ==
    [][/\ (pubPc = "scan_failed" /\ pubPc' # pubPc)
            => (pubPc' = "send" /\ pubErrorLogged' /\ channel' = channel /\ pubBatch' = pubBatch)
       /\ (pubPc = "roster_failed" /\ pubPc' # pubPc)
            => (pubPc' = "roster_fetch" /\ pubErrorLogged' /\ channel' = channel)
       /\ (pubPc = "send" /\ pubPc' # pubPc)
            => (channel' = Append(channel, KillsTable(pubBatch))
                \/ (channel' = channel /\ pubErrorLogged'))
       /\ (pubPc = "roster_send" /\ pubPc' # pubPc)
            => (channel' = Append(channel, RosterTable(pubBatch))
                \/ (channel' = channel /\ pubErrorLogged'))]_vars

\* after one call of each publisher on a channel that held one table of each
\* kind, both old tables are still there (their deletes failed) and both new
\* tables have been sent after them
C26_Witness ==
    /\ pubCalls = 2
    /\ pubPc = "done"
    /\ otherPosts = 0
    /\ pubErrorLogged
    /\ Len(channel) = 4
    /\ LiveReports = {1, 3} \/ LiveReports = {1, 4}
    /\ LiveRosters = {2, 3} \/ LiveRosters = {2, 4}

\* C27: in both publishers, a delete that fails (the channel is as it was and
\* the message is no longer awaited) leaves every other old table found by the
\* scan still to be deleted in this publish.
C27_DeleteFailureContained ==
    [][(pubPc \in {"delete", "roster_delete"} /\ channel' = channel /\ pending' # pending)
          => pending' = Tail(pending)]_vars

----------------------------------------------------------------------------
(* Time texts without a known zone *)

\* C28: for a "Latest Deaths" table whose rows all have two cells, a row whose
\* time text has no zone or a zone other than CEST and CET gives an entry with
\* unknown time; and _process_character_deaths on the entries of the table
\* does not raise and returns the entry of every recent kill by an enemy.
C28_UnknownZoneIsUnknownTime ==
    (/\ dlResult.done
     /\ dlTable.deathTable
     /\ \A i \in DOMAIN dlTable.rows : dlTable.rows[i].cols = 2)
       => /\ \A i \in DOMAIN dlTable.rows :
               dlTable.rows[i].time.zone \in {"none", "other"}
                   => dlResult.deaths[i].time = NoTime
          /\ LET res == ProcessDeaths(NameAlice, dlResult.deaths,
                                      EnemyNames({NameEvilBob}), Now0)
             IN  /\ ~res.exc
                 /\ \A i \in DOMAIN dlTable.rows :
                      dlTable.rows[i] = DeathRow(2, RecentCEST, KilledByEvilBob)
                          => Occurs(KillEntry(NameAlice, dlResult.deaths[i]), res.entries)

----------------------------------------------------------------------------
(* refresh_character_death_and_update_table of bot/enemy_table_manager.py,
   called from several asyncio tasks *)

MaxRefreshCalls == 3    \* calls of refresh_character_death_and_update_table

notLockVars == <<matchVars, botVars, storeVars, runVars, pubVars, scrapeVars, parseVars, opVars>>

\* line 13, asyncio.Lock(): the call creates a Lock object of its own
LockMake(c) ==
    /\ refreshCalls[c].pc \in {"idle", "returned"}
    /\ Len(locks) < MaxRefreshCalls
    /\ locks' = Append(locks, FALSE)
    /\ refreshCalls' = [refreshCalls EXCEPT ![c] = [pc |-> "made", lock |-> Len(locks) + 1, sent |-> FALSE]]
    /\ UNCHANGED notLockVars

\* line 13, async with: Lock.acquire goes on when the lock is free and waits
\* while it is held
LockAcquire(c) ==
    /\ refreshCalls[c].pc = "made"
    /\ ~locks[refreshCalls[c].lock]
    /\ locks' = [locks EXCEPT ![refreshCalls[c].lock] = TRUE]
    /\ refreshCalls' = [refreshCalls EXCEPT ![c].pc = "requests"]
    /\ UNCHANGED notLockVars

\* lines 15-19: the two awaited GETs; an exception goes to the handler of
\* line 70, inside the async with
RefreshRequests(c) ==
    /\ refreshCalls[c].pc = "requests"
    /\ \E ok \in BOOLEAN :
         refreshCalls' = [refreshCalls EXCEPT ![c].pc = IF ok THEN "gather" ELSE "exit"]
    /\ UNCHANGED <<locks, notLockVars>>

\* lines 33-66: the awaited gather of the death logs and the correlation
RefreshGather(c) ==
    /\ refreshCalls[c].pc = "gather"
    /\ refreshCalls' = [refreshCalls EXCEPT ![c].pc = "send"]
    /\ UNCHANGED <<locks, notLockVars>>

\* line 68: await send_enemy_table()
RefreshSend(c) ==
    /\ refreshCalls[c].pc = "send"
    /\ refreshCalls' = [refreshCalls EXCEPT ![c].pc = "exit", ![c].sent = TRUE]
    /\ UNCHANGED <<locks, notLockVars>>

\* the end of the async with block: Lock.release
LockRelease(c) ==
    /\ refreshCalls[c].pc = "exit"
    /\ locks' = [locks EXCEPT ![refreshCalls[c].lock] = FALSE]
    /\ refreshCalls' = [refreshCalls EXCEPT ![c].pc = "returned"]
    /\ UNCHANGED notLockVars

RefreshLockInit == MatchIdle /\ PipelineIdle

RefreshLockNext ==
    \E c \in Callers :
        \/ LockMake(c)
        \/ LockAcquire(c)
        \/ RefreshRequests(c)
        \/ RefreshGather(c)
        \/ RefreshSend(c)
        \/ LockRelease(c)

SpecRefreshLock == RefreshLockInit /\ [][RefreshLockNext]_vars

\* the calls between the acquire and the release of line 13
InLockedSection == {c \in Callers : refreshCalls[c].pc \in {"requests", "gather", "send", "exit"}}

\* C29 as stated: at most one call is inside the locked section at any time.
C29_OneInLockedSection == Cardinality(InLockedSection) <= 1
=============================================================================
